---- MODULE Spec2Model ----
(***************************************************************************)
(* Analytics core of PM-App: Brinson-Fachler attribution                   *)
(* (src/src/analytics/compute_attribution.py) and the risk-metric          *)
(* calculator (src/src/analytics/compute_risk_metrics.py), with the        *)
(* tables they write through src/src/core/utils_db.py.                     *)
(*                                                                         *)
(* Numbers.  The code computes in IEEE doubles.  The model computes in     *)
(* exact rationals <<n, d>> (d > 0, lowest terms) and keeps the one        *)
(* non-number the code produces, NaN, as <<0, 0>>.  An identity that holds *)
(* here holds in the code up to rounding; one that fails here fails in the *)
(* code by the same amount.  calculate_z_score, whose guard compares a     *)
(* computed standard deviation with zero, is modelled with the rounding of *)
(* each operation (see its section).                                       *)
(***************************************************************************)
EXTENDS Integers, Sequences, FiniteSets, Bags, TLC

VARIABLES
    in_kind,                \* which entry point is computed: "daily" | "monthly"
    in_port,                \* result of the portfolio query (one row per sector)
    in_bench,               \* result of the benchmark query (one row per ticker)
    out_attr,               \* what the run computed: [state, skipped, rows]
    portfolio_attribution,  \* the table: a bag of rows (no key constrains it)
    attr_pc,                \* where the attribution run stands: "idle" | "skipped" |
                            \* "delete" | "insert"
    attr_run,               \* the run's locals: asof_date, lookback_days,
                            \* all_attribution and the rows still to insert
    portfolio_risk_metrics, \* the table: a bag of rows (no key constrains it)
    risk_pc,                \* where the risk-metrics run stands: "idle" | "raised" |
                            \* "delete" | "insert" | "refresh"
    risk_run,               \* the run's locals: asof_date, port_returns, the
                            \* metrics list and the metrics still to insert
    call_fn,                \* the function a caller applies on its own
    call_args,              \* its arguments
    call_ret                \* what it returned: [done, value]

calc_vars == <<in_kind, in_port, in_bench, out_attr>>

attr_vars == <<portfolio_attribution, attr_pc, attr_run>>

risk_vars == <<portfolio_risk_metrics, risk_pc, risk_run>>

call_vars == <<call_fn, call_args, call_ret>>

vars == <<calc_vars, attr_vars, risk_vars, call_vars>>

----------------------------------------------------------------------------
(* Rational arithmetic with NaN                                            *)

NaN == <<0, 0>>

IsNaN(x) == x[2] = 0

Abs(n) == IF n < 0 THEN 0 - n ELSE n

RECURSIVE GCD(_, _)
GCD(a, b) == IF b = 0 THEN a ELSE GCD(b, a % b)

\* n/d in lowest terms, for d > 0
Norm(n, d) ==
    LET g == GCD(Abs(n), d)
    IN  <<n \div g, d \div g>>

R(n, d) == Norm(n, d)

Zero == <<0, 1>>

One == <<1, 1>>

RNeg(a) == IF IsNaN(a) THEN NaN ELSE <<0 - a[1], a[2]>>

RAdd(a, b) ==
    IF IsNaN(a) \/ IsNaN(b) THEN NaN
    ELSE LET g == GCD(a[2], b[2])
             l == (a[2] \div g) * b[2]
         IN  Norm(a[1] * (l \div a[2]) + b[1] * (l \div b[2]), l)

RSub(a, b) == RAdd(a, RNeg(b))

RMul(a, b) ==
    IF IsNaN(a) \/ IsNaN(b) THEN NaN
    ELSE LET g1 == GCD(Abs(a[1]), b[2])
             g2 == GCD(Abs(b[1]), a[2])
         IN  Norm((a[1] \div g1) * (b[1] \div g2), (a[2] \div g2) * (b[2] \div g1))

\* float division as numpy does it on the operands the code gives it: x / 0.0
\* is NaN for x = 0; the divisors of this model that can be zero are sums of
\* non-negative terms and variances, which only ever meet zero dividends
RDiv(a, b) ==
    IF IsNaN(a) \/ IsNaN(b) \/ b[1] = 0 THEN NaN
    ELSE IF b[1] > 0 THEN RMul(a, <<b[2], b[1]>>)
    ELSE RMul(a, <<0 - b[2], 0 - b[1]>>)

\* a < b; every comparison with NaN is false
RLt(a, b) == ~IsNaN(a) /\ ~IsNaN(b) /\ a[1] * b[2] < b[1] * a[2]

RAbs(a) == IF IsNaN(a) THEN NaN ELSE <<Abs(a[1]), a[2]>>

\* Series.fillna(0)
fillna0(x) == IF IsNaN(x) THEN Zero ELSE x

\* Series.sum(): NaN entries are skipped (skipna=True); f is a function, S a
\* finite subset of its domain
RECURSIVE SumOver(_, _)
SumOver(f, S) ==
    IF S = {} THEN Zero
    ELSE LET s == CHOOSE x \in S : TRUE
         IN  RAdd(fillna0(f[s]), SumOver(f, S \ {s}))

RECURSIVE IntSumOver(_, _)
IntSumOver(f, S) ==
    IF S = {} THEN 0
    ELSE LET s == CHOOSE x \in S : TRUE
         IN  f[s] + IntSumOver(f, S \ {s})

----------------------------------------------------------------------------
(* compute_attribution.py                                                  *)

EQUITY_SECTORS == {"Tech", "Financials", "US Broad", "Canada Broad"}

FIXED_INCOME_SECTORS == {"CAN Bonds", "US Bonds"}

sector_mapping ==
    [t \in {"XLK", "XFN.TO", "SPY", "XIC.TO", "XBB.TO", "AGG"} |->
        CASE t = "XLK"    -> "Tech"
          [] t = "XFN.TO" -> "Financials"
          [] t = "SPY"    -> "US Broad"
          [] t = "XIC.TO" -> "Canada Broad"
          [] t = "XBB.TO" -> "CAN Bonds"
          [] t = "AGG"    -> "US Bonds"]

Tickers == DOMAIN sector_mapping

\* the skip threshold of both entry points, 0.0001 (one basis point)
OneBp == R(1, 10000)

\* A data frame keyed by sector is a function from the sectors that have a row
\* to the row.  The empty frame is the function with the empty domain.
EmptyFrame == [s \in {} |-> Zero]

\* load_portfolio_data after the query: q maps each sector of the GROUP BY
\* result to [market_value |-> SUM(market_value), daily_return |-> AVG(daily_return)]
load_portfolio_data(q) ==
    IF DOMAIN q = {} THEN EmptyFrame
    ELSE LET total_mv == IntSumOver([s \in DOMAIN q |-> q[s].market_value], DOMAIN q)
         IN  [s \in DOMAIN q |->
                [weight |-> IF total_mv > 0 THEN R(q[s].market_value, total_mv) ELSE Zero,
                 daily_return |-> q[s].daily_return]]

\* load_benchmark_data after the query: q maps each benchmark ticker that has a
\* non-NULL return on the date to that return
load_benchmark_data(q) ==
    IF DOMAIN q = {} THEN EmptyFrame
    ELSE LET sectors == {sector_mapping[t] : t \in DOMAIN q}
             of(s) == {t \in DOMAIN q : sector_mapping[t] = s}
         IN  [s \in sectors |->
                [weight |-> R(1, Cardinality(DOMAIN sector_mapping)),
                 daily_return |-> RDiv(SumOver(q, of(s)), R(Cardinality(of(s)), 1))]]

\* load_portfolio_monthly_data after the query: q maps each sector to
\* [market_value |-> AVG(market_value), daily_return |-> compounded period return]
load_portfolio_monthly_data(q) ==
    IF DOMAIN q = {} THEN EmptyFrame
    ELSE LET total_mv == IntSumOver([s \in DOMAIN q |-> q[s].market_value], DOMAIN q)
         IN  [s \in DOMAIN q |->
                [weight |-> IF total_mv > 0 THEN R(q[s].market_value, total_mv) ELSE Zero,
                 daily_return |-> q[s].daily_return]]

\* load_benchmark_monthly_data after the query: one row per ticker, mapped to
\* its sector, no averaging
load_benchmark_monthly_data(q) ==
    IF DOMAIN q = {} THEN EmptyFrame
    ELSE [s \in {sector_mapping[t] : t \in DOMAIN q} |->
            [weight |-> R(1, Cardinality(DOMAIN sector_mapping)),
             daily_return |-> q[CHOOSE t \in DOMAIN q : sector_mapping[t] = s]]]

\* merged as an inner join: a sector of one side only is dropped
merged_inner(portfolio_df, benchmark_df) ==
    [s \in DOMAIN portfolio_df \cap DOMAIN benchmark_df |->
        [weight_portfolio |-> fillna0(portfolio_df[s].weight),
         weight_benchmark |-> fillna0(benchmark_df[s].weight),
         daily_return_portfolio |-> fillna0(portfolio_df[s].daily_return),
         daily_return_benchmark |-> fillna0(benchmark_df[s].daily_return)]]

\* the outer merge on sector with the four fillna(0) calls
merged(portfolio_df, benchmark_df) ==
    [s \in DOMAIN portfolio_df \cup DOMAIN benchmark_df |->
        [weight_portfolio |->
            IF s \in DOMAIN portfolio_df THEN fillna0(portfolio_df[s].weight) ELSE Zero,
         weight_benchmark |->
            IF s \in DOMAIN benchmark_df THEN fillna0(benchmark_df[s].weight) ELSE Zero,
         daily_return_portfolio |->
            IF s \in DOMAIN portfolio_df THEN fillna0(portfolio_df[s].daily_return) ELSE Zero,
         daily_return_benchmark |->
            IF s \in DOMAIN benchmark_df THEN fillna0(benchmark_df[s].daily_return) ELSE Zero]]

\* calculate_attribution with the allocation effect taken against the sector's
\* raw benchmark return instead of its excess over the total benchmark return
calculate_attribution_raw_allocation(portfolio_df, benchmark_df, attribution_type) ==
    LET m == merged(portfolio_df, benchmark_df)
        total_benchmark_return ==
            SumOver([s \in DOMAIN m |->
                        RMul(m[s].weight_benchmark, m[s].daily_return_benchmark)],
                    DOMAIN m)
    IN  {[sector |-> s,
          attribution_type |-> attribution_type,
          allocation_effect |->
              RMul(RSub(m[s].weight_portfolio, m[s].weight_benchmark),
                   m[s].daily_return_benchmark),
          selection_effect |->
              RMul(m[s].weight_benchmark,
                   RSub(m[s].daily_return_portfolio, m[s].daily_return_benchmark)),
          interaction_effect |->
              RMul(RSub(m[s].weight_portfolio, m[s].weight_benchmark),
                   RSub(m[s].daily_return_portfolio, m[s].daily_return_benchmark)),
          portfolio_weight |-> m[s].weight_portfolio,
          benchmark_weight |-> m[s].weight_benchmark,
          portfolio_return |-> m[s].daily_return_portfolio,
          benchmark_return |-> m[s].daily_return_benchmark,
          total_benchmark_return |-> total_benchmark_return] : s \in DOMAIN m}

calculate_attribution(portfolio_df, benchmark_df, attribution_type) ==
    LET m == merged(portfolio_df, benchmark_df)
        total_benchmark_return ==
            SumOver([s \in DOMAIN m |->
                        RMul(m[s].weight_benchmark, m[s].daily_return_benchmark)],
                    DOMAIN m)
    IN  {[sector |-> s,
          attribution_type |-> attribution_type,
          allocation_effect |->
              RMul(RSub(m[s].weight_portfolio, m[s].weight_benchmark),
                   RSub(m[s].daily_return_benchmark, total_benchmark_return)),
          selection_effect |->
              RMul(m[s].weight_benchmark,
                   RSub(m[s].daily_return_portfolio, m[s].daily_return_benchmark)),
          interaction_effect |->
              RMul(RSub(m[s].weight_portfolio, m[s].weight_benchmark),
                   RSub(m[s].daily_return_portfolio, m[s].daily_return_benchmark)),
          portfolio_weight |-> m[s].weight_portfolio,
          benchmark_weight |-> m[s].weight_benchmark,
          portfolio_return |-> m[s].daily_return_portfolio,
          benchmark_return |-> m[s].daily_return_benchmark,
          total_benchmark_return |-> total_benchmark_return] : s \in DOMAIN m}

\* df[df['sector'].isin(scope)].copy()
isin(df, scope) == [s \in DOMAIN df \cap scope |-> df[s]]

\* df['weight'] = df['weight'] / df['weight'].sum()
renormalize(df) ==
    LET total == SumOver([s \in DOMAIN df |-> df[s].weight], DOMAIN df)
    IN  [s \in DOMAIN df |->
            [weight |-> RDiv(df[s].weight, total),
             daily_return |-> df[s].daily_return]]

\* (df['daily_return'] * df['weight']).sum()
weighted_return(df) ==
    SumOver([s \in DOMAIN df |-> RMul(df[s].daily_return, df[s].weight)], DOMAIN df)

scope_attribution(portfolio_df, benchmark_df, scope, attribution_type) ==
    LET p == isin(portfolio_df, scope)
        b == isin(benchmark_df, scope)
    IN  IF DOMAIN p # {} /\ DOMAIN b # {}
        THEN calculate_attribution(renormalize(p), renormalize(b), attribution_type)
        ELSE {}

\* the part of calculate_and_store_attribution and calculate_monthly_attribution
\* between the loads and the store: the three early returns, then all_attribution
all_attribution(portfolio_df, benchmark_df) ==
    IF DOMAIN portfolio_df = {} THEN [skipped |-> TRUE, rows |-> {}]
    ELSE IF DOMAIN benchmark_df = {} THEN [skipped |-> TRUE, rows |-> {}]
    ELSE IF /\ RLt(RAbs(weighted_return(portfolio_df)), OneBp)
            /\ RLt(RAbs(weighted_return(benchmark_df)), OneBp)
         THEN [skipped |-> TRUE, rows |-> {}]
    ELSE [skipped |-> FALSE,
          rows |-> calculate_attribution(portfolio_df, benchmark_df, "TOTAL")
                   \cup scope_attribution(portfolio_df, benchmark_df,
                                          EQUITY_SECTORS, "EQUITY")
                   \cup scope_attribution(portfolio_df, benchmark_df,
                                          FIXED_INCOME_SECTORS, "FIXED_INCOME")]

daily_attribution(port_q, bench_q) ==
    all_attribution(load_portfolio_data(port_q), load_benchmark_data(bench_q))

monthly_attribution(port_q, bench_q) ==
    all_attribution(load_portfolio_monthly_data(port_q),
                    load_benchmark_monthly_data(bench_q))

----------------------------------------------------------------------------
(* Inputs of the computation                                               *)

\* most sectors with a row in one portfolio query result
MaxPortRows == 2

\* sectors a holding can carry: of the six benchmark sectors two equity
\* sectors and one bond sector, plus one sector outside both scopes
PortSectors == {"Tech", "US Broad", "CAN Bonds", "Consumer"}

\* SUM(market_value) of a sector; 0 is a holding entered with market value 0
\* (app/pages/2_Add_Portfolio.py accepts it)
MarketValues == {0, 1, 3}

Bp(n) == R(n, 10000)

\* sector returns of the portfolio on three days, in basis points; on the
\* third day two sectors hold only rows whose daily_return is NULL, so that
\* AVG(daily_return) is NULL (the daily query does not filter them)
PortReturnDays ==
    {[s \in PortSectors |->
        CASE s = "Tech" -> Bp(2) [] s = "US Broad" -> Bp(0 - 1)
          [] s = "CAN Bonds" -> Bp(1) [] s = "Consumer" -> Bp(3)],
     [s \in PortSectors |->
        CASE s = "Tech" -> Bp(0) [] s = "US Broad" -> Bp(1)
          [] s = "CAN Bonds" -> Bp(0) [] s = "Consumer" -> Bp(0 - 2)]}

PortReturnDaysNull ==
    {[s \in PortSectors |->
        CASE s = "Tech" -> NaN [] s = "US Broad" -> Bp(2)
          [] s = "CAN Bonds" -> NaN [] s = "Consumer" -> Bp(1)]}

\* returns of the six benchmark tickers on two days, in basis points
BenchReturnDays ==
    {[t \in Tickers |->
        CASE t = "XLK" -> Bp(3) [] t = "XFN.TO" -> Bp(1) [] t = "SPY" -> Bp(2)
          [] t = "XIC.TO" -> Bp(0 - 1) [] t = "XBB.TO" -> Bp(1) [] t = "AGG" -> Bp(0 - 2)],
     [t \in Tickers |->
        CASE t = "XLK" -> Bp(1) [] t = "XFN.TO" -> Bp(0) [] t = "SPY" -> Bp(0)
          [] t = "XIC.TO" -> Bp(0) [] t = "XBB.TO" -> Bp(0) [] t = "AGG" -> Bp(0)]}

\* the portfolio query results: at most MaxPortRows sectors hold positions
PortQueryResults(days) ==
    {[s \in S |-> [market_value |-> mv[s], daily_return |-> day[s]]] :
        <<S, mv, day>> \in
            {x \in (SUBSET PortSectors) \X [PortSectors -> MarketValues] \X days :
                Cardinality(x[1]) <= MaxPortRows}}

\* the benchmark query results: any subset of the tickers has a return
BenchQueryResults ==
    {[t \in S |-> day[t]] : <<S, day>> \in (SUBSET Tickers) \X BenchReturnDays}

----------------------------------------------------------------------------
(* The computation alone                                                   *)

NotRun == [state |-> "none", skipped |-> FALSE, rows |-> {}]

\* no attribution run is in progress
NoRun == [asof_date |-> 0, lookback_days |-> 0, all_attribution |-> {}, rows |-> <<>>]

\* no risk-metrics run is in progress
NoRiskRun == [asof_date |-> 0, port_returns |-> <<>>, raised |-> FALSE,
              all_metrics |-> <<>>, metrics |-> <<>>]

\* no function has been applied
NotCalled == [done |-> FALSE, value |-> <<>>]

CalcInit ==
    /\ in_kind \in {"daily", "monthly"}
    /\ in_port \in PortQueryResults(IF in_kind = "daily"
                                      THEN PortReturnDays \cup PortReturnDaysNull
                                      ELSE PortReturnDays)
    /\ in_bench \in BenchQueryResults
    /\ out_attr = NotRun
    /\ portfolio_attribution = EmptyBag
    /\ attr_pc = "idle"
    /\ attr_run = NoRun
    /\ portfolio_risk_metrics = EmptyBag
    /\ risk_pc = "idle"
    /\ risk_run = NoRiskRun
    /\ call_fn = "none"
    /\ call_args = <<>>
    /\ call_ret = NotCalled

CalcDaily ==
    /\ in_kind = "daily"
    /\ out_attr.state = "none"
    /\ LET r == daily_attribution(in_port, in_bench)
       IN  out_attr' = [state |-> "done", skipped |-> r.skipped, rows |-> r.rows]
    /\ UNCHANGED <<in_kind, in_port, in_bench, attr_vars, risk_vars, call_vars>>

CalcMonthly ==
    /\ in_kind = "monthly"
    /\ out_attr.state = "none"
    /\ LET r == monthly_attribution(in_port, in_bench)
       IN  out_attr' = [state |-> "done", skipped |-> r.skipped, rows |-> r.rows]
    /\ UNCHANGED <<in_kind, in_port, in_bench, attr_vars, risk_vars, call_vars>>

CalcNext == CalcDaily \/ CalcMonthly

SpecCalc == CalcInit /\ [][CalcNext]_vars

----------------------------------------------------------------------------
(* Properties of the computed attribution rows                             *)

AttributionTypes == {"TOTAL", "EQUITY", "FIXED_INCOME"}

ScopeSectors(t) ==
    IF t = "EQUITY" THEN EQUITY_SECTORS ELSE FIXED_INCOME_SECTORS

TypeRows(rows, t) == {r \in rows : r.attribution_type = t}

SumPortfolioWeight(rows) == SumOver([r \in rows |-> r.portfolio_weight], rows)

SumBenchmarkWeight(rows) == SumOver([r \in rows |-> r.benchmark_weight], rows)

SumEffects(rows) ==
    SumOver([r \in rows |->
                RAdd(RAdd(r.allocation_effect, r.selection_effect), r.interaction_effect)],
            rows)

SumBenchmarkReturn(rows) ==
    SumOver([r \in rows |-> RMul(r.benchmark_weight, r.benchmark_return)], rows)

ActiveReturn(rows) ==
    RSub(SumOver([r \in rows |-> RMul(r.portfolio_weight, r.portfolio_return)], rows),
         SumBenchmarkReturn(rows))

\* C1 (as claimed): in the rows of every calculate_attribution call the three
\* effects sum to sum(Wp * Rp) - sum(Wb * Rb), the total active return.
C1_AttributionIdentity ==
    \A t \in AttributionTypes :
        SumEffects(TypeRows(out_attr.rows, t)) = ActiveReturn(TypeRows(out_attr.rows, t))

\* the scenario of the specification: Tech 0.6 / 0.02 and Bonds 0.4 / 0.01
\* against Tech 0.5 / 0.015 and Bonds 0.5 / 0.005
ScenarioPortfolio ==
    [s \in {"Tech", "Bonds"} |->
        IF s = "Tech" THEN [weight |-> R(3, 5), daily_return |-> R(2, 100)]
        ELSE [weight |-> R(2, 5), daily_return |-> R(1, 100)]]

ScenarioBenchmark ==
    [s \in {"Tech", "Bonds"} |->
        IF s = "Tech" THEN [weight |-> R(1, 2), daily_return |-> R(15, 1000)]
        ELSE [weight |-> R(1, 2), daily_return |-> R(5, 1000)]]

ScenarioRows == calculate_attribution(ScenarioPortfolio, ScenarioBenchmark, "TOTAL")

ScenarioHolds ==
    /\ \E r \in ScenarioRows :
          /\ r.sector = "Tech"
          /\ r.allocation_effect = R(5, 10000)
          /\ r.selection_effect = R(25, 10000)
          /\ r.interaction_effect = R(5, 10000)
    /\ \E r \in ScenarioRows :
          /\ r.sector = "Bonds"
          /\ r.allocation_effect = R(5, 10000)
          /\ r.selection_effect = R(25, 10000)
          /\ r.interaction_effect = R(0 - 5, 10000)
    /\ Cardinality(ScenarioRows) = Cardinality({"Tech", "Bonds"})
    /\ SumEffects(ScenarioRows) = R(6, 1000)

\* C2: every computed row carries allocation = (Wp - Wb) * (Rb - T),
\* selection = Wb * (Rp - Rb) and interaction = (Wp - Wb) * (Rp - Rb), where T
\* is the sum of Wb * Rb over the rows of the same call and is the value of
\* total_benchmark_return on each of them; the Tech/Bonds scenario gives the
\* six effects 0.0005, 0.0025, 0.0005, 0.0005, 0.0025, -0.0005, summing to 0.006.
C2_EffectFormulas ==
    /\ \A r \in out_attr.rows :
          LET T == SumBenchmarkReturn(TypeRows(out_attr.rows, r.attribution_type))
              dW == RSub(r.portfolio_weight, r.benchmark_weight)
              dR == RSub(r.portfolio_return, r.benchmark_return)
          IN  /\ r.total_benchmark_return = T
              /\ r.allocation_effect = RMul(dW, RSub(r.benchmark_return, T))
              /\ r.selection_effect = RMul(r.benchmark_weight, dR)
              /\ r.interaction_effect = RMul(dW, dR)
    /\ ScenarioHolds

\* a run has produced two rows of one call whose three effects are all
\* non-zero, against a non-zero total benchmark return
C2_Witness ==
    /\ out_attr.state = "done"
    /\ \E r1, r2 \in out_attr.rows :
          /\ r1.sector # r2.sector
          /\ r1.attribution_type = r2.attribution_type
          /\ r1.total_benchmark_return # Zero
          /\ \A r \in {r1, r2} :
                /\ r.allocation_effect # Zero
                /\ r.selection_effect # Zero
                /\ r.interaction_effect # Zero

\* the sectors of the benchmark query result
BenchSectors(q) == {sector_mapping[t] : t \in DOMAIN q}

OneRowPerSector(rows, sectors, P, B) ==
    /\ {r.sector : r \in rows} = sectors
    /\ Cardinality(rows) = Cardinality(sectors)
    /\ \A r \in rows :
          /\ r.sector \notin B =>
                r.benchmark_weight = Zero /\ r.benchmark_return = Zero
          /\ r.sector \notin P =>
                r.portfolio_weight = Zero /\ r.portfolio_return = Zero

\* C3: the rows of a call hold every sector of either side exactly once, and a
\* sector of one side only has weight 0 and return 0 on the other side.
C3_OuterJoin ==
    (out_attr.state = "done" /\ ~out_attr.skipped) =>
        LET P == DOMAIN in_port
            B == BenchSectors(in_bench)
        IN  /\ OneRowPerSector(TypeRows(out_attr.rows, "TOTAL"), P \cup B, P, B)
            /\ \A t \in {"EQUITY", "FIXED_INCOME"} :
                  TypeRows(out_attr.rows, t) # {} =>
                      OneRowPerSector(TypeRows(out_attr.rows, t),
                                      (P \cup B) \cap ScopeSectors(t), P, B)

\* the TOTAL rows hold a sector of the portfolio alone and a sector of the
\* benchmark alone, each with a non-zero allocation effect
C3_Witness ==
    /\ out_attr.state = "done"
    /\ \E r1, r2 \in TypeRows(out_attr.rows, "TOTAL") :
          /\ r1.sector \notin BenchSectors(in_bench)
          /\ r2.sector \notin DOMAIN in_port
          /\ r1.allocation_effect # Zero
          /\ r2.allocation_effect # Zero

\* C4 (as claimed): the EQUITY and FIXED_INCOME rows of a run hold only
\* sectors of their scope, and within each scope the portfolio weights sum to
\* 1 and the benchmark weights sum to 1.
C4_ScopeWeightsSumToOne ==
    \A t \in {"EQUITY", "FIXED_INCOME"} :
        LET rows == TypeRows(out_attr.rows, t)
        IN  rows # {} =>
               /\ \A r \in rows : r.sector \in ScopeSectors(t)
               /\ SumPortfolioWeight(rows) = One
               /\ SumBenchmarkWeight(rows) = One

\* C5 (as claimed): in the TOTAL rows of a run the portfolio weights sum to 1
\* and the benchmark weights sum to 1.
C5_TotalWeightsSumToOne ==
    LET rows == TypeRows(out_attr.rows, "TOTAL")
    IN  rows # {} =>
           /\ SumPortfolioWeight(rows) = One
           /\ SumBenchmarkWeight(rows) = One

----------------------------------------------------------------------------
(* Storing the attribution rows: the "Store in database" blocks of         *)
(* calculate_and_store_attribution and calculate_monthly_attribution.      *)
(* get_conn() sets autocommit, so every statement is committed when it has *)
(* run and every state between two statements is a state of the database.  *)

\* the as-of dates runs are made for
MaxDate == 2

Dates == 1..MaxDate

\* default lookback_days of calculate_and_store_attribution
DailyLookback == 1

\* default lookback_days of calculate_monthly_attribution
MonthlyLookback == 30

Lookbacks == {DailyLookback, MonthlyLookback}

\* the query results the stored runs are made on, as (portfolio, benchmark)
\* pairs: a Tech holding against XLK, a bond holding against XBB.TO, a day
\* on which both weighted returns are under one basis point, and a date
\* without portfolio rows or without benchmark rows
StoreDatasets ==
    {<<[s \in {"Tech"} |-> [market_value |-> 3, daily_return |-> Bp(2)]],
       [t \in {"XLK"} |-> Bp(3)]>>,
     <<[s \in {"CAN Bonds"} |-> [market_value |-> 1, daily_return |-> Bp(0 - 1)]],
       [t \in {"XBB.TO"} |-> Bp(1)]>>,
     <<[s \in {"Tech"} |-> [market_value |-> 3, daily_return |-> Bp(0)]],
       [t \in {"XLK"} |-> Bp(1)]>>,
     <<EmptyFrame, [t \in {"XLK"} |-> Bp(3)]>>,
     <<[s \in {"Tech"} |-> [market_value |-> 3, daily_return |-> Bp(2)]], EmptyFrame>>}

\* what the two entry points load and compute on them
StoreDailyRuns ==
    {[port |-> d[1], bench |-> d[2], result |-> daily_attribution(d[1], d[2])] :
        d \in StoreDatasets}

StoreMonthlyRuns ==
    {[port |-> d[1], bench |-> d[2], result |-> monthly_attribution(d[1], d[2])] :
        d \in StoreDatasets}

\* the row order of all_attribution: TOTAL, EQUITY, FIXED_INCOME as they are
\* appended, and inside each the sectors in the order the outer merge leaves
\* them in (keys sorted)
TypeOrder == <<"TOTAL", "EQUITY", "FIXED_INCOME">>

SectorOrder ==
    <<"CAN Bonds", "Canada Broad", "Consumer", "Financials", "Tech", "US Bonds", "US Broad">>

IndexIn(seq, x) == CHOOSE i \in 1..Len(seq) : seq[i] = x

RowBefore(r1, r2) ==
    \/ IndexIn(TypeOrder, r1.attribution_type) < IndexIn(TypeOrder, r2.attribution_type)
    \/ /\ r1.attribution_type = r2.attribution_type
       /\ IndexIn(SectorOrder, r1.sector) <= IndexIn(SectorOrder, r2.sector)

\* all_attribution.iterrows()
RECURSIVE iterrows(_)
iterrows(rows) ==
    IF rows = {} THEN <<>>
    ELSE LET first == CHOOSE r \in rows : \A x \in rows : RowBefore(r, x)
         IN  <<first>> \o iterrows(rows \ {first})

\* the parameters of one INSERT
InsertRow(asof_date, lookback_days, row) ==
    [asof_date |-> asof_date,
     attribution_type |-> row.attribution_type,
     sector |-> row.sector,
     allocation_effect |-> row.allocation_effect,
     selection_effect |-> row.selection_effect,
     interaction_effect |-> row.interaction_effect,
     portfolio_weight |-> row.portfolio_weight,
     benchmark_weight |-> row.benchmark_weight,
     portfolio_return |-> row.portfolio_return,
     benchmark_return |-> row.benchmark_return,
     total_benchmark_return |-> row.total_benchmark_return,
     lookback_days |-> lookback_days]

\* the rows of a bag that satisfy Keep
BagFilter(bag, Keep(_)) ==
    LET kept == {r \in DOMAIN bag : Keep(r)}
    IN  [r \in kept |-> bag[r]]

StoreInit ==
    /\ in_kind = "daily"
    /\ in_port = EmptyFrame
    /\ in_bench = EmptyFrame
    /\ out_attr = NotRun
    /\ portfolio_attribution = EmptyBag
    /\ attr_pc = "idle"
    /\ attr_run = NoRun
    /\ portfolio_risk_metrics = EmptyBag
    /\ risk_pc = "idle"
    /\ risk_run = NoRiskRun
    /\ call_fn = "none"
    /\ call_args = <<>>
    /\ call_ret = NotCalled

\* a variant whose early returns come after the DELETE
AttrBeginDeleteFirst(kind, asof_date, lookback_days, run) ==
    /\ attr_pc = "idle"
    /\ in_kind' = kind
    /\ in_port' = run.port
    /\ in_bench' = run.bench
    /\ IF run.result.skipped
       THEN /\ attr_pc' = "skipped"
            /\ LET Keep(r) == ~(r.asof_date = asof_date /\ r.lookback_days = lookback_days)
               IN  portfolio_attribution' = BagFilter(portfolio_attribution, Keep)
            /\ UNCHANGED attr_run
       ELSE /\ attr_pc' = "delete"
            /\ attr_run' = [asof_date |-> asof_date,
                            lookback_days |-> lookback_days,
                            all_attribution |-> run.result.rows,
                            rows |-> iterrows(run.result.rows)]
            /\ UNCHANGED portfolio_attribution
    /\ UNCHANGED <<out_attr, risk_vars, call_vars>>

\* the run up to "Store in database": loads, early returns, all_attribution
AttrBegin(kind, asof_date, lookback_days, run) ==
    /\ attr_pc = "idle"
    /\ in_kind' = kind
    /\ in_port' = run.port
    /\ in_bench' = run.bench
    /\ IF run.result.skipped
       THEN /\ attr_pc' = "skipped"
            /\ UNCHANGED <<portfolio_attribution, attr_run>>
       ELSE /\ attr_pc' = "delete"
            /\ attr_run' = [asof_date |-> asof_date,
                            lookback_days |-> lookback_days,
                            all_attribution |-> run.result.rows,
                            rows |-> iterrows(run.result.rows)]
            /\ UNCHANGED portfolio_attribution
    /\ UNCHANGED <<out_attr, risk_vars, call_vars>>

\* the function returns: its locals are gone
AttrReturned ==
    /\ attr_pc' = "idle"
    /\ attr_run' = NoRun
    /\ in_kind' = "daily"
    /\ in_port' = EmptyFrame
    /\ in_bench' = EmptyFrame
    /\ UNCHANGED <<out_attr, risk_vars, call_vars>>

\* calculate_and_store_attribution(asof_date, lookback_days)
AttrBeginDaily ==
    \E asof_date \in Dates, lookback_days \in Lookbacks, run \in StoreDailyRuns :
        AttrBegin("daily", asof_date, lookback_days, run)

\* calculate_monthly_attribution(end_date, lookback_days)
AttrBeginMonthly ==
    \E end_date \in Dates, lookback_days \in Lookbacks, run \in StoreMonthlyRuns :
        AttrBegin("monthly", end_date, lookback_days, run)

\* the `return` of a skipped run
AttrSkip ==
    /\ attr_pc = "skipped"
    /\ AttrReturned
    /\ UNCHANGED portfolio_attribution

\* DELETE FROM portfolio_attribution WHERE asof_date = ? AND lookback_days = ?
\* with the rows of every other key kept
AttrDeleteNone ==
    /\ attr_pc = "delete"
    /\ attr_pc' = "insert"
    /\ UNCHANGED <<portfolio_attribution, attr_run, calc_vars, risk_vars, call_vars>>

AttrDeleteByDate ==
    /\ attr_pc = "delete"
    /\ LET Keep(r) == r.asof_date # attr_run.asof_date
       IN  portfolio_attribution' = BagFilter(portfolio_attribution, Keep)
    /\ attr_pc' = "insert"
    /\ UNCHANGED <<attr_run, calc_vars, risk_vars, call_vars>>

AttrDelete ==
    /\ attr_pc = "delete"
    /\ LET Keep(r) == ~(/\ r.asof_date = attr_run.asof_date
                        /\ r.lookback_days = attr_run.lookback_days)
       IN  portfolio_attribution' = BagFilter(portfolio_attribution, Keep)
    /\ attr_pc' = "insert"
    /\ UNCHANGED <<attr_run, calc_vars, risk_vars, call_vars>>

\* one pass of the insert loop
AttrInsert ==
    /\ attr_pc = "insert"
    /\ attr_run.rows # <<>>
    /\ portfolio_attribution' =
          portfolio_attribution (+)
          SetToBag({InsertRow(attr_run.asof_date, attr_run.lookback_days,
                              Head(attr_run.rows))})
    /\ attr_run' = [attr_run EXCEPT !.rows = Tail(@)]
    /\ UNCHANGED <<attr_pc, calc_vars, risk_vars, call_vars>>

\* cn.commit() after the loop, and the return
AttrCommit ==
    /\ attr_pc = "insert"
    /\ attr_run.rows = <<>>
    /\ AttrReturned
    /\ UNCHANGED portfolio_attribution

\* a statement raises (the connection drops, the server rejects the statement):
\* the exception leaves the function; what was executed stays committed
AttrFail ==
    /\ attr_pc \in {"delete", "insert"}
    /\ AttrReturned
    /\ UNCHANGED portfolio_attribution

StoreNext ==
    \/ AttrBeginDaily
    \/ AttrBeginMonthly
    \/ AttrSkip
    \/ AttrDelete
    \/ AttrInsert
    \/ AttrCommit
    \/ AttrFail

SpecStore == StoreInit /\ [][StoreNext]_vars

----------------------------------------------------------------------------
(* Properties of the stored attribution rows                               *)

KeyRows(bag, asof_date, lookback_days) ==
    LET Keep(r) == r.asof_date = asof_date /\ r.lookback_days = lookback_days
    IN  BagFilter(bag, Keep)

OtherRows(bag, asof_date, lookback_days) ==
    LET Keep(r) == ~(r.asof_date = asof_date /\ r.lookback_days = lookback_days)
    IN  BagFilter(bag, Keep)

\* C6: when a run has stored its results for (asof_date, lookback_days), the
\* rows of the table with that key are exactly the rows the run computed, one
\* copy each, and no statement of a run changes a row of another key.
C6_AttributionOverwrite ==
    [][/\ AttrCommit =>
            KeyRows(portfolio_attribution', attr_run.asof_date, attr_run.lookback_days)
              = SetToBag({InsertRow(attr_run.asof_date, attr_run.lookback_days, r) :
                            r \in attr_run.all_attribution})
       /\ attr_pc # "idle" =>
            OtherRows(portfolio_attribution', attr_run.asof_date, attr_run.lookback_days)
              = OtherRows(portfolio_attribution, attr_run.asof_date, attr_run.lookback_days)
      ]_vars

\* a run with a FIXED_INCOME row has deleted the rows of its key and
\* inserted all of its own, while another key holds rows too
C6_Witness ==
    /\ attr_pc = "insert"
    /\ attr_run.rows = <<>>
    /\ BagToSet(OtherRows(portfolio_attribution,
                          attr_run.asof_date, attr_run.lookback_days)) # {}
    /\ \E r \in attr_run.all_attribution : r.attribution_type = "FIXED_INCOME"

\* C7 (as claimed): the table holds at most one row per
\* (asof_date, attribution_type, sector).
C7_OneRowPerDateTypeSector ==
    \A r1, r2 \in BagToSet(portfolio_attribution) :
        (/\ r1.asof_date = r2.asof_date
         /\ r1.attribution_type = r2.attribution_type
         /\ r1.sector = r2.sector)
        => (r1 = r2 /\ CopiesIn(r1, portfolio_attribution) = 1)

\* C7 (amended): the table holds at most one row per
\* (asof_date, lookback_days, attribution_type, sector).
C7_OneRowPerKeyTypeSector ==
    \A r1, r2 \in BagToSet(portfolio_attribution) :
        (/\ r1.asof_date = r2.asof_date
         /\ r1.lookback_days = r2.lookback_days
         /\ r1.attribution_type = r2.attribution_type
         /\ r1.sector = r2.sector)
        => (r1 = r2 /\ CopiesIn(r1, portfolio_attribution) = 1)

\* no run is in progress and the table holds, for one date, the rows of a
\* daily-lookback run and of a period-lookback run
C7_Witness ==
    /\ attr_pc = "idle"
    /\ \E r1, r2 \in BagToSet(portfolio_attribution) :
          /\ r1.asof_date = r2.asof_date
          /\ r1.attribution_type = r2.attribution_type
          /\ r1.sector = r2.sector
          /\ r1.lookback_days = DailyLookback
          /\ r2.lookback_days = MonthlyLookback

----------------------------------------------------------------------------
(* Risk metrics: src/analytics/compute_risk_metrics.py                     *)
(*                                                                         *)
(* A return series is a sequence of floats in date order, a frame of       *)
(* returns a sequence of [date, daily_return] rows.  What a metric         *)
(* function hands back is a record [form, args]: "float" with the exact    *)
(* value where the code's arithmetic is rational, "sqrt" and "annualized"  *)
(* and the ratios built on them where it is not, and "raise" where the     *)
(* function raises instead of returning.                                   *)

RISK_FREE_RATE == R(4, 100)

\* lookback = 252 in calculate_and_store_all_metrics
lookback == 252

Float(q) == [form |-> "float", args |-> <<q>>]

Raised == [form |-> "raise", args |-> <<>>]

\* np.percentile of an empty array is NaN in one numpy and an IndexError in
\* another
PercentileOfEmpty == {Float(NaN), Raised}

\* df[df.date <= asof_date], dropna(subset=['daily_return']), sort_values('date')
\* on a view that is ordered by date
load_returns(view, asof_date) ==
    LET Keep(row) == row.date <= asof_date /\ ~IsNaN(row.daily_return)
    IN  SelectSeq(view, Keep)

load_portfolio_returns(db, asof_date) == load_returns(db.v_portfolio_daily_returns, asof_date)

load_benchmark_returns(db, asof_date) == load_returns(db.v_benchmark_daily_returns, asof_date)

\* SELECT ticker, market_value, sector FROM historical_portfolio_info WHERE date = ?
load_portfolio_holdings(db, asof_date) ==
    {[ticker |-> h.ticker, market_value |-> h.market_value, sector |-> h.sector] :
        h \in {x \in db.historical_portfolio_info : x.date = asof_date}}

\* the sector names of the repository that match LIKE '%Bond%'
BondSectors == {"US Bonds", "CAN Bonds", "Bonds"}

load_bond_durations(db, asof_date) ==
    {h \in load_portfolio_holdings(db, asof_date) : h.sector \in BondSectors}

\* a function on 1..n as the tuple of its n values
Tuple(f, n) == SubSeq(f, 1, n)

\* the daily_return column of a frame
daily_return(frame) == Tuple([i \in 1..Len(frame) |-> frame[i].daily_return], Len(frame))

\* if len(returns) < lookback_days: lookback_days = len(returns)
\* returns.tail(lookback_days)
tail(returns, lookback_days) ==
    LET n == IF Len(returns) < lookback_days THEN Len(returns) ELSE lookback_days
    IN  SubSeq(returns, Len(returns) - n + 1, Len(returns))

\* Series.sum(), by halves
RECURSIVE sum(_)
sum(s) ==
    IF s = <<>> THEN Zero
    ELSE IF Len(s) = 1 THEN s[1]
    ELSE LET half == Len(s) \div 2
         IN  RAdd(sum(SubSeq(s, 1, half)), sum(SubSeq(s, half + 1, Len(s))))

\* Series.prod(), by halves
RECURSIVE prod(_)
prod(s) ==
    IF s = <<>> THEN One
    ELSE IF Len(s) = 1 THEN s[1]
    ELSE LET half == Len(s) \div 2
         IN  RMul(prod(SubSeq(s, 1, half)), prod(SubSeq(s, half + 1, Len(s))))

mean(s) == IF s = <<>> THEN NaN ELSE RDiv(sum(s), R(Len(s), 1))

\* Series.cov, ddof = 1: NaN under two observations
cov(x, y) ==
    IF Len(x) < 2 THEN NaN
    ELSE LET mx == mean(x)
             my == mean(y)
             products == Tuple([i \in 1..Len(x) |-> RMul(RSub(x[i], mx), RSub(y[i], my))],
                               Len(x))
         IN  RDiv(sum(products), R(Len(x) - 1, 1))

\* Series.var and the square of Series.std, ddof = 1
var(x) == cov(x, x)

\* the array in ascending order: the entry of rank k is the one with k - 1
\* entries before it, equal entries in the order they have
sort_values(s) ==
    LET n == Len(s)
        Before(j, i) == RLt(s[j], s[i]) \/ (s[j] = s[i] /\ j < i)
        rank == Tuple([i \in 1..n |-> Cardinality({j \in 1..n : Before(j, i)}) + 1], n)
    IN  Tuple([k \in 1..n |-> s[CHOOSE i \in 1..n : rank[i] = k]], n)

\* np.percentile(a, q) of a non-empty array, linear interpolation between the
\* two order statistics around (n - 1) * q / 100
percentile(a, q) ==
    LET sorted == sort_values(a)
        pos == (Len(a) - 1) * q
        lo == pos \div 100
        frac == R(pos % 100, 100)
    IN  IF pos % 100 = 0 THEN sorted[lo + 1]
        ELSE RAdd(sorted[lo + 1], RMul(frac, RSub(sorted[lo + 2], sorted[lo + 1])))

\* std * np.sqrt(252), from the variance
annualized_std(variance) ==
    IF IsNaN(variance) THEN Float(NaN)
    ELSE IF variance = Zero THEN Float(Zero)
    ELSE [form |-> "sqrt", args |-> <<RMul(R(252, 1), variance)>>]

\* (1 + cumulative) ** (252 / n) - 1 with 1 + cumulative = growth; 252 / 0
\* raises ZeroDivisionError
annualized_return(growth, n) ==
    IF n = 0 THEN Raised
    ELSE IF growth = One THEN Float(Zero)
    ELSE IF n = 252 THEN Float(RSub(growth, One))
    ELSE [form |-> "annualized", args |-> <<growth, R(n, 1)>>]

one_plus(s) == Tuple([i \in 1..Len(s) |-> RAdd(One, s[i])], Len(s))

calculate_var_95(returns, lookback_days, np_empty) ==
    LET recent_returns == tail(returns, lookback_days)
    IN  IF recent_returns = <<>> THEN np_empty
        ELSE Float(percentile(recent_returns, 5))

calculate_expected_shortfall(returns, lookback_days, np_empty) ==
    LET recent_returns == tail(returns, lookback_days)
    IN  IF recent_returns = <<>> THEN np_empty
        ELSE LET var_95 == percentile(recent_returns, 5)
                 Below(x) == ~RLt(var_95, x)
             IN  Float(mean(SelectSeq(recent_returns, Below)))

calculate_volatility(returns, lookback_days) ==
    annualized_std(var(tail(returns, lookback_days)))

calculate_sharpe_ratio(returns, lookback_days) ==
    LET recent_returns == tail(returns, lookback_days)
        growth == prod(one_plus(recent_returns))
        annualized == annualized_return(growth, Len(recent_returns))
        annualized_vol == annualized_std(var(recent_returns))
    IN  IF annualized = Raised THEN Raised
        ELSE IF annualized_vol = Float(Zero) THEN Float(Zero)
        ELSE IF annualized_vol = Float(NaN) THEN Float(NaN)
        ELSE [form |-> "sharpe",
              args |-> <<growth, R(Len(recent_returns), 1), RISK_FREE_RATE,
                         annualized_vol.args[1]>>]

RMin(a, b) == IF RLt(b, a) THEN b ELSE a

RMax(a, b) == IF RLt(a, b) THEN b ELSE a

RECURSIVE seq_min(_)
seq_min(s) ==
    IF Len(s) = 1 THEN s[1]
    ELSE LET half == Len(s) \div 2
         IN  RMin(seq_min(SubSeq(s, 1, half)), seq_min(SubSeq(s, half + 1, Len(s))))

RECURSIVE seq_max(_)
seq_max(s) ==
    IF Len(s) = 1 THEN s[1]
    ELSE LET half == Len(s) \div 2
         IN  RMax(seq_max(SubSeq(s, 1, half)), seq_max(SubSeq(s, half + 1, Len(s))))

\* a variant that measures the decline from the start of the window
calculate_max_drawdown_from_start(returns, lookback_days) ==
    LET recent_returns == tail(returns, lookback_days)
        n == Len(recent_returns)
        growth == one_plus(recent_returns)
        cumulative == Tuple([i \in 1..n |-> prod(SubSeq(growth, 1, i))], n)
        drawdown == Tuple([i \in 1..n |-> RSub(cumulative[i], One)], n)
    IN  IF n = 0 THEN Float(NaN) ELSE Float(seq_min(drawdown))

calculate_max_drawdown(returns, lookback_days) ==
    LET recent_returns == tail(returns, lookback_days)
        n == Len(recent_returns)
        growth == one_plus(recent_returns)
        cumulative == Tuple([i \in 1..n |-> prod(SubSeq(growth, 1, i))], n)
        running_max == Tuple([i \in 1..n |-> seq_max(SubSeq(cumulative, 1, i))], n)
        drawdown == Tuple([i \in 1..n |->
                              RDiv(RSub(cumulative[i], running_max[i]), running_max[i])], n)
    IN  IF n = 0 THEN Float(NaN) ELSE Float(seq_min(drawdown))


\* a variant that keeps every portfolio date, with a benchmark return of 0
\* where the benchmark has none
merge_left_on_date(portfolio_returns, benchmark_returns) ==
    LET bench_dates == {benchmark_returns[i].date : i \in 1..Len(benchmark_returns)}
        bench_on(d) ==
            IF d \in bench_dates
            THEN benchmark_returns[CHOOSE i \in 1..Len(benchmark_returns) :
                                       benchmark_returns[i].date = d].daily_return
            ELSE Zero
    IN  Tuple([i \in 1..Len(portfolio_returns) |->
                 [date |-> portfolio_returns[i].date,
                  daily_return_port |-> portfolio_returns[i].daily_return,
                  daily_return_bench |-> bench_on(portfolio_returns[i].date)]],
              Len(portfolio_returns))

\* pd.merge(portfolio_returns, benchmark_returns, on='date'): the dates both
\* frames have, in the order of the portfolio frame
merge_on_date(portfolio_returns, benchmark_returns) ==
    LET bench_dates == {benchmark_returns[i].date : i \in 1..Len(benchmark_returns)}
        Both(row) == row.date \in bench_dates
        bench_on(d) ==
            benchmark_returns[CHOOSE i \in 1..Len(benchmark_returns) :
                                  benchmark_returns[i].date = d].daily_return
        left == SelectSeq(portfolio_returns, Both)
    IN  Tuple([i \in 1..Len(left) |->
                 [date |-> left[i].date,
                  daily_return_port |-> left[i].daily_return,
                  daily_return_bench |-> bench_on(left[i].date)]], Len(left))

daily_return_port(frame) ==
    Tuple([i \in 1..Len(frame) |-> frame[i].daily_return_port], Len(frame))

daily_return_bench(frame) ==
    Tuple([i \in 1..Len(frame) |-> frame[i].daily_return_bench], Len(frame))

\* recent['daily_return_port'] - recent['daily_return_bench']
active_returns_of(recent) ==
    Tuple([i \in 1..Len(recent) |->
             RSub(recent[i].daily_return_port, recent[i].daily_return_bench)], Len(recent))

\* a variant without the guard on the benchmark variance
calculate_beta_unguarded(portfolio_returns, benchmark_returns, lookback_days) ==
    LET recent == tail(merge_on_date(portfolio_returns, benchmark_returns), lookback_days)
        covariance == cov(daily_return_port(recent), daily_return_bench(recent))
        benchmark_variance == var(daily_return_bench(recent))
    IN  Float(RDiv(covariance, benchmark_variance))

calculate_beta(portfolio_returns, benchmark_returns, lookback_days) ==
    LET recent == tail(merge_on_date(portfolio_returns, benchmark_returns), lookback_days)
        covariance == cov(daily_return_port(recent), daily_return_bench(recent))
        benchmark_variance == var(daily_return_bench(recent))
    IN  IF benchmark_variance = Zero THEN Float(Zero)
        ELSE Float(RDiv(covariance, benchmark_variance))

calculate_tracking_error(portfolio_returns, benchmark_returns, lookback_days) ==
    LET recent == tail(merge_on_date(portfolio_returns, benchmark_returns), lookback_days)
    IN  annualized_std(var(active_returns_of(recent)))

calculate_information_ratio(portfolio_returns, benchmark_returns, lookback_days) ==
    LET recent == tail(merge_on_date(portfolio_returns, benchmark_returns), lookback_days)
        active_returns == active_returns_of(recent)
        growth == prod(one_plus(active_returns))
        annualized_active_return == annualized_return(growth, Len(active_returns))
        tracking_error == annualized_std(var(active_returns))
    IN  IF annualized_active_return = Raised THEN Raised
        ELSE IF tracking_error = Float(Zero) THEN Float(Zero)
        ELSE IF tracking_error = Float(NaN) THEN Float(NaN)
        ELSE [form |-> "info_ratio",
              args |-> <<growth, R(Len(active_returns), 1), tracking_error.args[1]>>]

calculate_active_return(portfolio_returns, benchmark_returns, lookback_days) ==
    LET recent == tail(merge_on_date(portfolio_returns, benchmark_returns), lookback_days)
        active_returns == active_returns_of(recent)
    IN  annualized_return(prod(one_plus(active_returns)), Len(active_returns))

\* a variant on the 0-100 scale
hhi_of_percent(mv) ==
    LET total_mv == IntSumOver(mv, DOMAIN mv)
        squares == [k \in DOMAIN mv |-> RMul(R(mv[k], total_mv), R(mv[k], total_mv))]
    IN  IF total_mv = 0 THEN Float(Zero)
        ELSE Float(RMul(SumOver(squares, DOMAIN mv), R(100, 1)))

\* (weights ** 2).sum() * 10000 over a market value per key
hhi_of(mv) ==
    LET total_mv == IntSumOver(mv, DOMAIN mv)
        squares == [k \in DOMAIN mv |-> RMul(R(mv[k], total_mv), R(mv[k], total_mv))]
    IN  IF total_mv = 0 THEN Float(Zero)
        ELSE Float(RMul(SumOver(squares, DOMAIN mv), R(10000, 1)))

calculate_hhi(holdings_df) ==
    hhi_of([h \in holdings_df |-> h.market_value])

\* a variant that does not group the positions by sector
sector_hhi_ungrouped(holdings_df) == calculate_hhi(holdings_df)

calculate_sector_hhi(holdings_df) ==
    LET sectors == {h.sector : h \in holdings_df}
        in_sector(s) == {h \in holdings_df : h.sector = s}
        mv == [h \in holdings_df |-> h.market_value]
    IN  hhi_of([s \in sectors |-> IntSumOver(mv, in_sector(s))])

duration_map == [US10Y |-> R(9, 1), CORP5 |-> R(9, 2), CAN10Y |-> R(9, 1)]

calculate_dv01(bond_holdings_df) ==
    LET mapped == {h \in bond_holdings_df : h.ticker \in DOMAIN duration_map}
        dv01 == [h \in mapped |->
                    RMul(RMul(R(h.market_value, 1), duration_map[h.ticker]), R(1, 10000))]
    IN  Float(SumOver(dv01, mapped))

\* one entry of the metrics list; lookback_days is <<252>> or <<>> for None
Metric(metric_name, metric_value, category, lookback_days) ==
    [metric_name |-> metric_name, metric_value |-> metric_value,
     category |-> category, lookback_days |-> lookback_days]

\* the metrics list as calculate_and_store_all_metrics builds it; an entry
\* whose function raises holds Raised
metrics_list(asof_date, db, np_empty) ==
    LET port_returns == load_portfolio_returns(db, asof_date)
        bench_returns == load_benchmark_returns(db, asof_date)
        holdings == load_portfolio_holdings(db, asof_date)
        bond_holdings == load_bond_durations(db, asof_date)
        returns_series == daily_return(port_returns)
    IN  << Metric("VaR_95", calculate_var_95(returns_series, lookback, np_empty),
                  "Market Risk", <<lookback>>),
           Metric("Expected_Shortfall",
                  calculate_expected_shortfall(returns_series, lookback, np_empty),
                  "Market Risk", <<lookback>>),
           Metric("Volatility_Ann", calculate_volatility(returns_series, lookback),
                  "Market Risk", <<lookback>>),
           Metric("Sharpe_Ratio", calculate_sharpe_ratio(returns_series, lookback),
                  "Market Risk", <<lookback>>),
           Metric("Max_Drawdown", calculate_max_drawdown(returns_series, lookback),
                  "Market Risk", <<lookback>>),
           Metric("Beta", calculate_beta(port_returns, bench_returns, lookback),
                  "Relative Risk", <<lookback>>),
           Metric("Tracking_Error",
                  calculate_tracking_error(port_returns, bench_returns, lookback),
                  "Relative Risk", <<lookback>>),
           Metric("Information_Ratio",
                  calculate_information_ratio(port_returns, bench_returns, lookback),
                  "Relative Risk", <<lookback>>),
           Metric("Active_Return",
                  calculate_active_return(port_returns, bench_returns, lookback),
                  "Relative Risk", <<lookback>>),
           Metric("HHI_Security", calculate_hhi(holdings), "Concentration", <<>>),
           Metric("HHI_Sector", calculate_sector_hhi(holdings), "Concentration", <<>>),
           Metric("DV01", calculate_dv01(bond_holdings), "Duration", <<>>) >>

\* a variant that puts 0 where a function raises
calculate_all_metrics_defaults(asof_date, db, np_empty) ==
    LET metrics == metrics_list(asof_date, db, np_empty)
    IN  [asof_date |-> asof_date,
         port_returns |-> load_portfolio_returns(db, asof_date),
         raised |-> FALSE,
         all_metrics |-> [i \in 1..Len(metrics) |->
                            IF metrics[i].metric_value = Raised
                            THEN [metrics[i] EXCEPT !.metric_value = Float(Zero)]
                            ELSE metrics[i]],
         metrics |-> [i \in 1..Len(metrics) |->
                            IF metrics[i].metric_value = Raised
                            THEN [metrics[i] EXCEPT !.metric_value = Float(Zero)]
                            ELSE metrics[i]]]

\* calculate_and_store_all_metrics up to "Store in database": the first
\* function that raises ends the call, and no metrics list is left
calculate_all_metrics(asof_date, db, np_empty) ==
    LET metrics == metrics_list(asof_date, db, np_empty)
        raised == \E i \in 1..Len(metrics) : metrics[i].metric_value = Raised
    IN  [asof_date |-> asof_date,
         port_returns |-> load_portfolio_returns(db, asof_date),
         raised |-> raised,
         all_metrics |-> IF raised THEN <<>> ELSE metrics,
         metrics |-> IF raised THEN <<>> ELSE metrics]


\* a daily return in twentieths
Ret(n) == R(n, 20)

Obs(d, r) == [date |-> d, daily_return |-> r]

Holding(d, ticker, market_value, sector) ==
    [date |-> d, ticker |-> ticker, market_value |-> market_value, sector |-> sector]

\* the contents the two return views and historical_portfolio_info can have
\* when a run reads them: a history of three days; a history whose last
\* portfolio return is NULL; a portfolio that starts on date 2; a portfolio
\* whose only return is NULL; a portfolio without benchmark returns
RiskDatabases ==
    {[v_portfolio_daily_returns |-> <<Obs(0, Ret(1)), Obs(1, Ret(0 - 1)), Obs(2, Ret(2))>>,
      v_benchmark_daily_returns |-> <<Obs(0, Ret(1)), Obs(1, Ret(0)), Obs(2, Ret(1))>>,
      historical_portfolio_info |->
          {Holding(1, "AAPL", 3, "Tech"), Holding(1, "US10Y", 1, "US Bonds"),
           Holding(2, "AAPL", 1, "Tech"), Holding(2, "MSFT", 1, "Tech"),
           Holding(2, "CORP5", 2, "US Bonds")}],
     [v_portfolio_daily_returns |-> <<Obs(1, Ret(1)), Obs(2, NaN)>>,
      v_benchmark_daily_returns |-> <<Obs(1, Ret(2)), Obs(2, Ret(0))>>,
      historical_portfolio_info |-> {Holding(1, "AAPL", 0, "Tech")}],
     [v_portfolio_daily_returns |-> <<Obs(2, Ret(0 - 1))>>,
      v_benchmark_daily_returns |-> <<Obs(1, Ret(1)), Obs(2, Ret(1))>>,
      historical_portfolio_info |-> {}],
     [v_portfolio_daily_returns |-> <<Obs(1, NaN)>>,
      v_benchmark_daily_returns |-> <<Obs(1, Ret(1))>>,
      historical_portfolio_info |-> {Holding(1, "AAPL", 3, "Tech")}],
     [v_portfolio_daily_returns |-> <<Obs(0, Ret(1)), Obs(1, Ret(1))>>,
      v_benchmark_daily_returns |-> <<>>,
      historical_portfolio_info |-> {Holding(1, "CAN10Y", 2, "CAN Bonds")}]}

\* what a call computes before it opens the connection to store
RiskRuns ==
    {calculate_all_metrics(asof_date, db, np_empty) :
        asof_date \in Dates, db \in RiskDatabases, np_empty \in PercentileOfEmpty}

\* the parameters of one INSERT
MetricRow(asof_date, m) ==
    [asof_date |-> asof_date,
     metric_name |-> m.metric_name,
     metric_value |-> m.metric_value,
     metric_category |-> m.category,
     lookback_days |-> m.lookback_days]

RiskInit ==
    /\ in_kind = "daily"
    /\ in_port = EmptyFrame
    /\ in_bench = EmptyFrame
    /\ out_attr = NotRun
    /\ portfolio_attribution = EmptyBag
    /\ attr_pc = "idle"
    /\ attr_run = NoRun
    /\ portfolio_risk_metrics = EmptyBag
    /\ risk_pc = "idle"
    /\ risk_run = NoRiskRun
    /\ call_fn = "none"
    /\ call_args = <<>>
    /\ call_ret = NotCalled

\* calculate_and_store_all_metrics(asof_date) up to "Store in database"
RiskBegin ==
    /\ risk_pc = "idle"
    /\ \E run \in RiskRuns :
          /\ risk_run' = run
          /\ risk_pc' = IF run.raised THEN "raised" ELSE "delete"
    /\ UNCHANGED <<portfolio_risk_metrics, calc_vars, attr_vars, call_vars>>

\* the exception of a metric function leaves the call
RiskRaise ==
    /\ risk_pc = "raised"
    /\ risk_pc' = "idle"
    /\ risk_run' = NoRiskRun
    /\ UNCHANGED <<portfolio_risk_metrics, calc_vars, attr_vars, call_vars>>

\* a variant that keeps the rows of the date
RiskDeleteNone ==
    /\ risk_pc = "delete"
    /\ risk_pc' = "insert"
    /\ UNCHANGED <<portfolio_risk_metrics, risk_run, calc_vars, attr_vars, call_vars>>

\* DELETE FROM portfolio_risk_metrics WHERE asof_date = ?, and cn.commit()
RiskDelete ==
    /\ risk_pc = "delete"
    /\ LET Keep(r) == r.asof_date # risk_run.asof_date
       IN  portfolio_risk_metrics' = BagFilter(portfolio_risk_metrics, Keep)
    /\ risk_pc' = "insert"
    /\ UNCHANGED <<risk_run, calc_vars, attr_vars, call_vars>>

\* one pass of the insert loop
RiskInsert ==
    /\ risk_pc = "insert"
    /\ risk_run.metrics # <<>>
    /\ portfolio_risk_metrics' =
          portfolio_risk_metrics (+)
          SetToBag({MetricRow(risk_run.asof_date, Head(risk_run.metrics))})
    /\ risk_run' = [risk_run EXCEPT !.metrics = Tail(@)]
    /\ UNCHANGED <<risk_pc, calc_vars, attr_vars, call_vars>>

\* cn.commit() after the loop
RiskCommit ==
    /\ risk_pc = "insert"
    /\ risk_run.metrics = <<>>
    /\ risk_pc' = "refresh"
    /\ UNCHANGED <<portfolio_risk_metrics, risk_run, calc_vars, attr_vars, call_vars>>

\* EXEC sp_refresh_risk_metrics_latest, cn.commit() and the return; the
\* procedure rebuilds risk_metrics_latest and leaves portfolio_risk_metrics
RiskRefresh ==
    /\ risk_pc = "refresh"
    /\ risk_pc' = "idle"
    /\ risk_run' = NoRiskRun
    /\ UNCHANGED <<portfolio_risk_metrics, calc_vars, attr_vars, call_vars>>

\* a statement raises (the connection drops, the server rejects a value):
\* the exception leaves the function; what was executed stays committed
RiskFail ==
    /\ risk_pc \in {"delete", "insert", "refresh"}
    /\ risk_pc' = "idle"
    /\ risk_run' = NoRiskRun
    /\ UNCHANGED <<portfolio_risk_metrics, calc_vars, attr_vars, call_vars>>

RiskNext ==
    \/ RiskBegin
    \/ RiskRaise
    \/ RiskDelete
    \/ RiskInsert
    \/ RiskCommit
    \/ RiskRefresh
    \/ RiskFail

SpecRisk == RiskInit /\ [][RiskNext]_vars


----------------------------------------------------------------------------
(* Properties of the stored risk metrics                                   *)

MetricNames ==
    {"VaR_95", "Expected_Shortfall", "Volatility_Ann", "Sharpe_Ratio", "Max_Drawdown",
     "Beta", "Tracking_Error", "Information_Ratio", "Active_Return",
     "HHI_Security", "HHI_Sector", "DV01"}

DateRows(bag, asof_date) ==
    LET Keep(r) == r.asof_date = asof_date
    IN  BagFilter(bag, Keep)

OtherDateRows(bag, asof_date) ==
    LET Keep(r) == r.asof_date # asof_date
    IN  BagFilter(bag, Keep)

\* the rows of a bag are one row for each of the metric names
OneRowPerMetricName(bag) ==
    /\ BagCardinality(bag) = Cardinality(MetricNames)
    /\ \A name \in MetricNames : \E r \in BagToSet(bag) : r.metric_name = name

\* C8: when calculate_and_store_all_metrics(asof_date) returns, the rows of
\* the table for asof_date are exactly the metrics the call computed, one
\* row per metric name, whatever the table held for the date before; and no
\* statement of the call changes a row of another date.
C8_RiskMetricReplacement ==
    [][/\ RiskRefresh =>
            /\ DateRows(portfolio_risk_metrics', risk_run.asof_date)
                 = SetToBag({MetricRow(risk_run.asof_date, risk_run.all_metrics[i]) :
                               i \in 1..Len(risk_run.all_metrics)})
            /\ OneRowPerMetricName(DateRows(portfolio_risk_metrics', risk_run.asof_date))
       /\ risk_pc # "idle" =>
            OtherDateRows(portfolio_risk_metrics', risk_run.asof_date)
              = OtherDateRows(portfolio_risk_metrics, risk_run.asof_date)
      ]_vars

\* a call on a history of three returns is about to return, and the table
\* holds rows of another date too
C8_Witness ==
    /\ risk_pc = "refresh"
    /\ Len(risk_run.port_returns) = 3
    /\ OtherDateRows(portfolio_risk_metrics, risk_run.asof_date) # EmptyBag

\* C9: in every state of the table the rows of a date are none or one row
\* for each metric name.
C9_AtomicPerDate ==
    \A asof_date \in Dates :
        \/ DateRows(portfolio_risk_metrics, asof_date) = EmptyBag
        \/ OneRowPerMetricName(DateRows(portfolio_risk_metrics, asof_date))

\* C10: a call whose portfolio return series is empty raises, and neither
\* the call nor the exception leaving it changes the table.
C10_NoDataRefusal ==
    [][/\ (risk_pc = "idle" /\ risk_pc' # "idle" /\ risk_run'.port_returns = <<>>)
            => risk_pc' = "raised"
       /\ (risk_pc' = "raised" \/ risk_pc = "raised")
            => portfolio_risk_metrics' = portfolio_risk_metrics
       /\ risk_pc = "raised" => risk_pc' = "idle"
      ]_vars

\* a call on an empty portfolio return series has raised while the table
\* holds rows for its date and for another date
C10_Witness ==
    /\ risk_pc = "raised"
    /\ risk_run.port_returns = <<>>
    /\ DateRows(portfolio_risk_metrics, risk_run.asof_date) # EmptyBag
    /\ OtherDateRows(portfolio_risk_metrics, risk_run.asof_date) # EmptyBag


----------------------------------------------------------------------------
(* The metric functions alone: a caller applies one function to arguments  *)
(* drawn from the sets below and keeps what it returns.                    *)

\* a history longer than the lookback: one loss on the first day, one gain of
\* the benchmark on the second, flat since
LongHistory(n, first, second) ==
    Tuple([i \in 1..n |-> Obs(i, IF i = 1 THEN first ELSE IF i = 2 THEN second ELSE Ret(0))],
          n)

\* the databases the metrics list is built on: the ones of the stored runs,
\* and one with lookback + 1 days of returns
HistoryDatabases ==
    RiskDatabases \cup
    {[v_portfolio_daily_returns |-> LongHistory(lookback + 1, Ret(0 - 1), Ret(0)),
      v_benchmark_daily_returns |-> LongHistory(lookback + 1, Ret(0), Ret(1)),
      historical_portfolio_info |-> {}]}

HistoryDates == {1, 2, lookback + 1}

MetricsListArgs ==
    [asof_date : HistoryDates, db : HistoryDatabases, np_empty : PercentileOfEmpty]


\* the longest series and the most dates a caller passes
MaxObs == 3

\* the holdings of the largest snapshot a caller passes
MaxHoldings == 3

ReturnValues == {Ret(0 - 1), Ret(0), Ret(1), Ret(2)}

\* the non-empty return series: calculate_and_store_all_metrics has raised
\* in calculate_sharpe_ratio before an empty one reaches a later function
ReturnSeries == UNION {[1..n -> ReturnValues] : n \in 1..MaxObs}

\* the frame of the returns f gives to the dates of its domain, in date order
FrameOf(f) ==
    LET D == DOMAIN f
        nth(k) == CHOOSE d \in D : Cardinality({e \in D : e < d}) = k - 1
    IN  Tuple([k \in 1..Cardinality(D) |-> Obs(nth(k), f[nth(k)])], Cardinality(D))

Frames(values) ==
    {FrameOf(f) : f \in UNION {[D -> values] : D \in SUBSET (1..MaxObs)}}

RelativeArgs ==
    [portfolio_returns : Frames({Ret(0 - 1), Ret(1)}),
     benchmark_returns : Frames({Ret(0), Ret(1)})]

HoldingSectors ==
    [AAPL |-> "Tech", MSFT |-> "Tech", US10Y |-> "US Bonds", XIC |-> "Canada Broad"]

\* the snapshots: up to MaxHoldings tickers, each with a market value
HoldingsSnapshots ==
    {{[ticker |-> t, market_value |-> mv[t], sector |-> HoldingSectors[t]] : t \in T} :
        <<T, mv>> \in
            {x \in (SUBSET DOMAIN HoldingSectors) \X [DOMAIN HoldingSectors -> MarketValues] :
                Cardinality(x[1]) <= MaxHoldings}}

\* the five market-risk functions on one series
market_risk(returns) ==
    [var_95 |-> calculate_var_95(returns, lookback, Raised),
     expected_shortfall |-> calculate_expected_shortfall(returns, lookback, Raised),
     volatility |-> calculate_volatility(returns, lookback),
     sharpe_ratio |-> calculate_sharpe_ratio(returns, lookback),
     max_drawdown |-> calculate_max_drawdown(returns, lookback)]

\* the four relative-risk functions on one pair of frames
relative_risk(portfolio_returns, benchmark_returns) ==
    [beta |-> calculate_beta(portfolio_returns, benchmark_returns, lookback),
     tracking_error |-> calculate_tracking_error(portfolio_returns, benchmark_returns, lookback),
     information_ratio |->
         calculate_information_ratio(portfolio_returns, benchmark_returns, lookback),
     active_return |-> calculate_active_return(portfolio_returns, benchmark_returns, lookback)]

Returned(value) == [done |-> TRUE, value |-> value]

MetricsInit ==
    /\ in_kind = "daily"
    /\ in_port = EmptyFrame
    /\ in_bench = EmptyFrame
    /\ out_attr = NotRun
    /\ portfolio_attribution = EmptyBag
    /\ attr_pc = "idle"
    /\ attr_run = NoRun
    /\ portfolio_risk_metrics = EmptyBag
    /\ risk_pc = "idle"
    /\ risk_run = NoRiskRun
    /\ \/ call_fn = "metrics_list" /\ call_args \in MetricsListArgs
       \/ call_fn = "market_risk" /\ call_args \in ReturnSeries
       \/ call_fn = "relative_risk" /\ call_args \in RelativeArgs
       \/ call_fn = "calculate_hhi" /\ call_args \in HoldingsSnapshots
       \/ call_fn = "calculate_sector_hhi" /\ call_args \in HoldingsSnapshots
    /\ call_ret = NotCalled

\* the metrics list of calculate_and_store_all_metrics
CallMetricsList ==
    /\ call_fn = "metrics_list"
    /\ ~call_ret.done
    /\ call_ret' = Returned(metrics_list(call_args.asof_date, call_args.db,
                                         call_args.np_empty))
    /\ UNCHANGED <<call_fn, call_args, calc_vars, attr_vars, risk_vars>>

CallMarketRisk ==
    /\ call_fn = "market_risk"
    /\ ~call_ret.done
    /\ call_ret' = Returned(market_risk(call_args))
    /\ UNCHANGED <<call_fn, call_args, calc_vars, attr_vars, risk_vars>>

CallRelativeRisk ==
    /\ call_fn = "relative_risk"
    /\ ~call_ret.done
    /\ call_ret' = Returned(relative_risk(call_args.portfolio_returns,
                                          call_args.benchmark_returns))
    /\ UNCHANGED <<call_fn, call_args, calc_vars, attr_vars, risk_vars>>

CallHhi ==
    /\ call_fn = "calculate_hhi"
    /\ ~call_ret.done
    /\ call_ret' = Returned(calculate_hhi(call_args))
    /\ UNCHANGED <<call_fn, call_args, calc_vars, attr_vars, risk_vars>>

CallSectorHhi ==
    /\ call_fn = "calculate_sector_hhi"
    /\ ~call_ret.done
    /\ call_ret' = Returned(calculate_sector_hhi(call_args))
    /\ UNCHANGED <<call_fn, call_args, calc_vars, attr_vars, risk_vars>>

MetricsNext ==
    \/ CallMetricsList
    \/ CallMarketRisk
    \/ CallRelativeRisk
    \/ CallHhi
    \/ CallSectorHhi

SpecMetrics == MetricsInit /\ [][MetricsNext]_vars


----------------------------------------------------------------------------
(* Properties of the metric functions                                      *)

\* the nine return-based metrics on every observation up to asof_date
FullHistoryValues(asof_date, db, np_empty) ==
    LET port_returns == load_portfolio_returns(db, asof_date)
        bench_returns == load_benchmark_returns(db, asof_date)
        returns_series == daily_return(port_returns)
        all == Len(port_returns)
    IN  << calculate_var_95(returns_series, all, np_empty),
           calculate_expected_shortfall(returns_series, all, np_empty),
           calculate_volatility(returns_series, all),
           calculate_sharpe_ratio(returns_series, all),
           calculate_max_drawdown(returns_series, all),
           calculate_beta(port_returns, bench_returns, all),
           calculate_tracking_error(port_returns, bench_returns, all),
           calculate_information_ratio(port_returns, bench_returns, all),
           calculate_active_return(port_returns, bench_returns, all) >>

\* C11: every return-based metric of the metrics list is the metric of the
\* full history up to asof_date, however many observations that history has.
C11_FullHistoryWindow ==
    (call_fn = "metrics_list" /\ call_ret.done) =>
        LET full == FullHistoryValues(call_args.asof_date, call_args.db, call_args.np_empty)
        IN  \A i \in 1..Len(full) : call_ret.value[i].metric_value = full[i]


\* the scope of attribution type t has no sector left on one of the two sides
ScopeIsEmpty(t) ==
    LET portfolio_df == IF in_kind = "daily" THEN load_portfolio_data(in_port)
                        ELSE load_portfolio_monthly_data(in_port)
        benchmark_df == IF in_kind = "daily" THEN load_benchmark_data(in_bench)
                        ELSE load_benchmark_monthly_data(in_bench)
    IN  \/ DOMAIN isin(portfolio_df, ScopeSectors(t)) = {}
        \/ DOMAIN isin(benchmark_df, ScopeSectors(t)) = {}

\* C12: a run that is not skipped and whose EQUITY or FIXED_INCOME scope has
\* no sector after filtering is rejected: it computes no attribution row.
C12_EmptyScopeRejected ==
    (/\ out_attr.state = "done"
     /\ ~out_attr.skipped
     /\ \E t \in {"EQUITY", "FIXED_INCOME"} : ScopeIsEmpty(t))
    => out_attr.rows = {}


TotalMarketValue(holdings_df) ==
    IntSumOver([h \in holdings_df |-> h.market_value], holdings_df)

\* four holdings of 25,000 each
FourEqualHoldings ==
    {[ticker |-> t, market_value |-> 25000, sector |-> HoldingSectors[t]] :
        t \in DOMAIN HoldingSectors}

\* C13: on a snapshot with positive total market value calculate_hhi returns
\* h with 0 < h <= 10000, exactly 10000 for a single holding and exactly
\* 10000/N for N equal holdings; four holdings of 25,000 give 2500.
C13_HhiBounds ==
    /\ calculate_hhi(FourEqualHoldings) = Float(R(2500, 1))
    /\ (call_fn = "calculate_hhi" /\ call_ret.done /\ TotalMarketValue(call_args) > 0) =>
          LET h == call_ret.value.args[1]
              N == Cardinality(call_args)
          IN  /\ call_ret.value.form = "float"
              /\ RLt(Zero, h)
              /\ ~RLt(R(10000, 1), h)
              /\ N = 1 => h = R(10000, 1)
              /\ (\A x, y \in call_args : x.market_value = y.market_value)
                    => h = R(10000, N)

\* calculate_hhi has returned on three equal holdings
C13_Witness ==
    /\ call_fn = "calculate_hhi"
    /\ call_ret.done
    /\ Cardinality(call_args) = 3
    /\ \A x \in call_args : x.market_value = 3


\* the cumulative-return path of the series never decreases
NeverDecreases(returns) == \A i \in 2..Len(returns) : ~RLt(returns[i], Zero)

JoinedWindow(portfolio_returns, benchmark_returns) ==
    tail(merge_on_date(portfolio_returns, benchmark_returns), lookback)

BenchmarkVariance(portfolio_returns, benchmark_returns) ==
    var(daily_return_bench(JoinedWindow(portfolio_returns, benchmark_returns)))

\* C15: calculate_sharpe_ratio returns 0 when the annualized volatility is
\* 0, calculate_beta returns 0 when the benchmark variance is 0 and
\* calculate_information_ratio returns 0 when the tracking error is 0.
C15_ZeroDenominatorGuards ==
    /\ (call_fn = "market_risk" /\ call_ret.done
            /\ call_ret.value.volatility = Float(Zero))
          => call_ret.value.sharpe_ratio = Float(Zero)
    /\ (call_fn = "relative_risk" /\ call_ret.done
            /\ BenchmarkVariance(call_args.portfolio_returns,
                                 call_args.benchmark_returns) = Zero)
          => call_ret.value.beta = Float(Zero)
    /\ (call_fn = "relative_risk" /\ call_ret.done
            /\ call_ret.value.tracking_error = Float(Zero))
          => call_ret.value.information_ratio = Float(Zero)

\* the relative-risk functions have returned on three joined days with a
\* constant benchmark and a constant active return
C15_Witness ==
    /\ call_fn = "relative_risk"
    /\ call_ret.done
    /\ Len(JoinedWindow(call_args.portfolio_returns, call_args.benchmark_returns)) = 3
    /\ BenchmarkVariance(call_args.portfolio_returns, call_args.benchmark_returns) = Zero
    /\ call_ret.value.tracking_error = Float(Zero)
    /\ call_ret.value.beta = Float(Zero)
    /\ call_ret.value.information_ratio = Float(Zero)


\* C16: on a series, or a date-joined pair of series, of exactly one
\* observation the functions that take a standard deviation return 0.
C16_OneObservationNeutral ==
    /\ (call_fn = "market_risk" /\ call_ret.done /\ Len(call_args) = 1) =>
          /\ call_ret.value.volatility = Float(Zero)
          /\ call_ret.value.sharpe_ratio = Float(Zero)
    /\ (call_fn = "relative_risk" /\ call_ret.done
            /\ Len(JoinedWindow(call_args.portfolio_returns,
                                call_args.benchmark_returns)) = 1) =>
          /\ call_ret.value.beta = Float(Zero)
          /\ call_ret.value.tracking_error = Float(Zero)
          /\ call_ret.value.information_ratio = Float(Zero)


DatesOf(frame) == {frame[i].date : i \in 1..Len(frame)}

\* the frame with one more observation, in date order
WithObservation(frame, obs) ==
    LET Earlier(row) == row.date < obs.date
        Later(row) == row.date > obs.date
    IN  SelectSeq(frame, Earlier) \o <<obs>> \o SelectSeq(frame, Later)

\* the frame without the observation of date d
WithoutDate(frame, d) ==
    LET Keep(row) == row.date # d
    IN  SelectSeq(frame, Keep)

\* observations on a date that neither series has, the day before the first
\* and the day after the last included
OneSidedObservations(portfolio_returns, benchmark_returns) ==
    {Obs(d, r) : d \in (0..(MaxObs + 1)) \ (DatesOf(portfolio_returns)
                                             \cup DatesOf(benchmark_returns)),
                 r \in {Ret(0 - 1), Ret(2)}}

\* C17: the four relative-risk results do not change when an observation on
\* a date of one series only is added to, or removed from, either series.
C17_InnerJoinByDate ==
    (call_fn = "relative_risk" /\ call_ret.done) =>
        LET p == call_args.portfolio_returns
            b == call_args.benchmark_returns
        IN  /\ \A obs \in OneSidedObservations(p, b) :
                  /\ relative_risk(WithObservation(p, obs), b) = call_ret.value
                  /\ relative_risk(p, WithObservation(b, obs)) = call_ret.value
            /\ \A d \in DatesOf(p) \ DatesOf(b) :
                  relative_risk(WithoutDate(p, d), b) = call_ret.value
            /\ \A d \in DatesOf(b) \ DatesOf(p) :
                  relative_risk(p, WithoutDate(b, d)) = call_ret.value

\* the functions have returned on two series that share two dates, the
\* portfolio having a third date of its own, with a tracking error above 0
C17_Witness ==
    /\ call_fn = "relative_risk"
    /\ call_ret.done
    /\ DatesOf(call_args.portfolio_returns) = {1, 2, 3}
    /\ DatesOf(call_args.benchmark_returns) = {2, 3}
    /\ call_ret.value.tracking_error.form = "sqrt"


----------------------------------------------------------------------------
(* Factor scoring: src/analytics/factor_scoring.py                         *)
(*                                                                         *)
(* A metric value is an exact rational, a missing one (None or NaN, which  *)
(* pd.isna does not tell apart) is NaN; a list is a sequence.              *)

\* round(x, 2): the nearest multiple of 1/100, a tie to the even one
round2(x) ==
    IF IsNaN(x) THEN NaN
    ELSE LET scaled == RMul(x, R(100, 1))
             low == scaled[1] \div scaled[2]
             rest == scaled[1] - low * scaled[2]
             nearest == IF 2 * rest < scaled[2] THEN low
                        ELSE IF 2 * rest > scaled[2] THEN low + 1
                        ELSE IF low % 2 = 0 THEN low ELSE low + 1
         IN  R(nearest, 100)

\* [v for v in values if not pd.isna(v)]
clean(values) ==
    LET Present(v) == ~IsNaN(v)
    IN  SelectSeq(values, Present)

\* (np.array(values) < x).sum()
count_less(values, x) == Cardinality({i \in 1..Len(values) : RLt(values[i], x)})

\* a variant that counts the peers the value is not below
calculate_percentile_rank_ties(ticker_value, sector_values, lower_is_better) ==
    LET clean_sector_values == clean(sector_values)
        at_most == Cardinality({i \in 1..Len(clean_sector_values) :
                                   ~RLt(ticker_value, clean_sector_values[i])})
        pct == RMul(R(at_most, Len(clean_sector_values)), R(100, 1))
    IN  IF IsNaN(ticker_value) \/ sector_values = <<>> THEN R(50, 1)
        ELSE IF clean_sector_values = <<>> THEN R(50, 1)
        ELSE IF lower_is_better THEN round2(RSub(R(100, 1), pct))
        ELSE round2(pct)

\* a variant that does not invert
calculate_percentile_rank_not_inverted(ticker_value, sector_values, lower_is_better) ==
    LET clean_sector_values == clean(sector_values)
        pct == RMul(R(count_less(clean_sector_values, ticker_value),
                             Len(clean_sector_values)), R(100, 1))
    IN  IF IsNaN(ticker_value) \/ sector_values = <<>> THEN R(50, 1)
        ELSE IF clean_sector_values = <<>> THEN R(50, 1)
        ELSE round2(pct)

\* a variant whose default is 0
calculate_percentile_rank_zero_default(ticker_value, sector_values, lower_is_better) ==
    LET clean_sector_values == clean(sector_values)
        pct == RMul(R(count_less(clean_sector_values, ticker_value),
                             Len(clean_sector_values)), R(100, 1))
    IN  IF IsNaN(ticker_value) \/ sector_values = <<>> THEN Zero
        ELSE IF clean_sector_values = <<>> THEN Zero
        ELSE IF lower_is_better THEN round2(RSub(R(100, 1), pct))
        ELSE round2(pct)

calculate_percentile_rank(ticker_value, sector_values, lower_is_better) ==
    LET clean_sector_values == clean(sector_values)
        pct == RMul(R(count_less(clean_sector_values, ticker_value),
                             Len(clean_sector_values)), R(100, 1))
    IN  IF IsNaN(ticker_value) \/ sector_values = <<>> THEN R(50, 1)
        ELSE IF clean_sector_values = <<>> THEN R(50, 1)
        ELSE IF lower_is_better THEN round2(RSub(R(100, 1), pct))
        ELSE round2(pct)

\* the longest list of peers a caller passes
MaxRefs == 3

\* the values of a fundamental metric, a missing one included
FactorValues == {NaN, R(10, 1), R(15, 1), R(20, 1)}

PercentileRankArgs ==
    [ticker_value : FactorValues,
     sector_values : UNION {[1..n -> FactorValues] : n \in 0..MaxRefs},
     lower_is_better : BOOLEAN]

PercentileInit ==
    /\ in_kind = "daily"
    /\ in_port = EmptyFrame
    /\ in_bench = EmptyFrame
    /\ out_attr = NotRun
    /\ portfolio_attribution = EmptyBag
    /\ attr_pc = "idle"
    /\ attr_run = NoRun
    /\ portfolio_risk_metrics = EmptyBag
    /\ risk_pc = "idle"
    /\ risk_run = NoRiskRun
    /\ call_fn = "calculate_percentile_rank"
    /\ call_args \in PercentileRankArgs
    /\ call_ret = NotCalled

CallPercentileRank ==
    /\ call_fn = "calculate_percentile_rank"
    /\ ~call_ret.done
    /\ call_ret' = Returned(calculate_percentile_rank(call_args.ticker_value,
                                                      call_args.sector_values,
                                                      call_args.lower_is_better))
    /\ UNCHANGED <<call_fn, call_args, calc_vars, attr_vars, risk_vars>>

PercentileNext == CallPercentileRank

SpecPercentile == PercentileInit /\ [][PercentileNext]_vars


----------------------------------------------------------------------------
(* Properties of calculate_percentile_rank                                 *)

\* the value is present and the list has a present entry
NonDegenerate(args) ==
    ~IsNaN(args.ticker_value) /\ clean(args.sector_values) # <<>>

\* the present entries strictly below the value
StrictlyBelow(args) ==
    Cardinality({i \in 1..Len(args.sector_values) :
                    /\ ~IsNaN(args.sector_values[i])
                    /\ RLt(args.sector_values[i], args.ticker_value)})

Present(args) ==
    Cardinality({i \in 1..Len(args.sector_values) : ~IsNaN(args.sector_values[i])})

\* r is x rounded to 2 decimals: a multiple of 1/100 within 1/200 of x
RoundedTo2(r, x) ==
    /\ RMul(r, R(100, 1))[2] = 1
    /\ ~RLt(R(1, 200), RAbs(RSub(r, x)))

\* with lower_is_better = False the result is 100 times the share of the
\* present entries strictly below the value, rounded to 2 decimals, in [0, 100]
RankIsShareBelow ==
    (/\ call_fn = "calculate_percentile_rank"
     /\ call_ret.done
     /\ ~call_args.lower_is_better
     /\ NonDegenerate(call_args))
    => /\ RoundedTo2(call_ret.value,
                     RMul(R(StrictlyBelow(call_args), Present(call_args)), R(100, 1)))
       /\ ~RLt(call_ret.value, Zero)
       /\ ~RLt(R(100, 1), call_ret.value)

ScenarioRefs == <<R(10, 1), R(12, 1), R(14, 1), R(16, 1), R(18, 1), R(20, 1)>>

C19_PercentileInversion ==
    (/\ call_fn = "calculate_percentile_rank"
     /\ call_ret.done
     /\ call_args.lower_is_better
     /\ NonDegenerate(call_args))
    => call_ret.value =
          RSub(R(100, 1),
               calculate_percentile_rank(call_args.ticker_value, call_args.sector_values,
                                         FALSE))

\* the function has returned 66.67 for a value above one of three peers
C19_Witness ==
    /\ call_fn = "calculate_percentile_rank"
    /\ call_ret.done
    /\ call_args.lower_is_better
    /\ Present(call_args) = 3
    /\ StrictlyBelow(call_args) = 1
    /\ call_ret.value = R(6667, 100)

\* C20: the result is exactly 50 when the value is missing or the list has
\* no present entry, whatever lower_is_better is.
C20_NeutralDefault ==
    (/\ call_fn = "calculate_percentile_rank"
     /\ call_ret.done
     /\ ~NonDegenerate(call_args))
    => call_ret.value = R(50, 1)

\* the function has returned on a present value and a list of missing
\* entries only, with lower_is_better = True
C20_Witness ==
    /\ call_fn = "calculate_percentile_rank"
    /\ call_ret.done
    /\ call_args.lower_is_better
    /\ ~IsNaN(call_args.ticker_value)
    /\ call_args.sector_values = <<NaN, NaN>>
    /\ call_ret.value = R(50, 1)


----------------------------------------------------------------------------
(* calculate_z_score: src/analytics/factor_scoring.py                      *)
(*                                                                         *)
(* The guard `std == 0` compares a computed double with zero, so here the  *)
(* rounding of every operation is kept: a double is a rational m * 2^e     *)
(* with a mantissa m of MantissaBits bits, and every operation rounds its  *)
(* exact result to the nearest double, a tie to the even mantissa.  The    *)
(* code runs on 53 bits; the exponent is unbounded here.                   *)

MantissaBits == 5

RECURSIVE pow2(_)
pow2(n) == IF n = 0 THEN 1 ELSE 2 * pow2(n - 1)

\* powers[i] = 2^(i-1)
powers == Tuple([i \in 1..31 |-> pow2(i - 1)], 31)

\* the number of bits of k > 0
bit_length(k) == Cardinality({i \in 1..31 : powers[i] <= k})

\* x * 2^e
ldexp(x, e) ==
    IF e >= 0 THEN RMul(x, <<powers[e + 1], 1>>) ELSE RMul(x, <<1, powers[1 - e]>>)

\* the nearest integer, a tie to the even one, for x >= 0
rint(x) ==
    LET low == x[1] \div x[2]
        rest == x[1] - low * x[2]
    IN  IF 2 * rest < x[2] THEN low
        ELSE IF 2 * rest > x[2] THEN low + 1
        ELSE IF low % 2 = 0 THEN low ELSE low + 1

\* the double nearest to the exact x > 0: with e the exponent that puts
\* x / 2^e in [2^(MantissaBits-1), 2^MantissaBits), rint(x / 2^e) * 2^e.
\* x / 2^guess lies between 2^(MantissaBits-1) and 2^(MantissaBits+1).
fl_positive(x) ==
    LET guess == bit_length(x[1]) - bit_length(x[2]) - MantissaBits
        scaled == ldexp(x, 0 - guess)
        e == IF scaled[1] >= scaled[2] * powers[MantissaBits + 1]
             THEN guess + 1 ELSE guess
    IN  ldexp(<<rint(ldexp(x, 0 - e)), 1>>, e)

\* the double nearest to the exact x
fl(x) ==
    IF IsNaN(x) THEN NaN
    ELSE IF x[1] = 0 THEN Zero
    ELSE IF x[1] < 0 THEN RNeg(fl_positive(RNeg(x)))
    ELSE fl_positive(x)

\* np.add.reduce over a short array: one rounded addition per element
RECURSIVE fl_sum(_)
fl_sum(a) ==
    IF a = <<>> THEN Zero
    ELSE fl(RAdd(fl_sum(SubSeq(a, 1, Len(a) - 1)), a[Len(a)]))

\* np.mean(a)
np_mean(a) == fl(RDiv(fl_sum(a), R(Len(a), 1)))

\* np.std(a) ** 2: the mean of the squared deviations from np.mean(a);
\* np.std(a) is 0 exactly when this is 0
np_var(a) ==
    LET arrmean == np_mean(a)
        x == Tuple([i \in 1..Len(a) |-> fl(RSub(a[i], arrmean))], Len(a))
        squares == Tuple([i \in 1..Len(a) |-> fl(RMul(x[i], x[i]))], Len(a))
    IN  np_mean(squares)

\* a z-score sign * sqrt(square), rounded to 3 decimals
ZScore(sign, square) == [sign |-> sign, square |-> square]

ZeroScore == ZScore(0, Zero)

\* round(z, 3) is 0.0 when |z| <= 0.0005, that is z * z * 4000000 <= 1
rounds_to_zero(square) == square[1] <= square[2] \div 4000000

\* round((value - mean) / std, 3)
z_of(value, mean_value, variance) ==
    LET above == fl(RSub(value, mean_value))
        square == RDiv(RMul(above, above), variance)
    IN  IF above = Zero \/ rounds_to_zero(square) THEN ZeroScore
        ELSE ZScore(IF RLt(above, Zero) THEN 0 - 1 ELSE 1, square)

calculate_z_score(value, all_values) ==
    LET clean_values == clean(all_values)
        std_squared == np_var(clean_values)
    IN  IF IsNaN(value) \/ Len(all_values) < 2 THEN ZeroScore
        ELSE IF Len(clean_values) < 2 THEN ZeroScore
        ELSE IF std_squared = Zero THEN ZeroScore
        ELSE z_of(value, np_mean(clean_values), std_squared)

\* the decimal literals a fundamental takes, as Python reads them
Literals == {R(1, 10), R(5, 10), R(9, 10)}

\* the doubles of a fundamental metric, a missing one included
ZValues == {NaN} \cup {fl(q) : q \in Literals}

ZScoreArgs ==
    [value : ZValues,
     all_values : UNION {[1..n -> ZValues] : n \in 0..MaxRefs}]

ZScoreInit ==
    /\ in_kind = "daily"
    /\ in_port = EmptyFrame
    /\ in_bench = EmptyFrame
    /\ out_attr = NotRun
    /\ portfolio_attribution = EmptyBag
    /\ attr_pc = "idle"
    /\ attr_run = NoRun
    /\ portfolio_risk_metrics = EmptyBag
    /\ risk_pc = "idle"
    /\ risk_run = NoRiskRun
    /\ call_fn = "calculate_z_score"
    /\ call_args \in ZScoreArgs
    /\ call_ret = NotCalled

CallZScore ==
    /\ call_fn = "calculate_z_score"
    /\ ~call_ret.done
    /\ call_ret' = Returned(calculate_z_score(call_args.value, call_args.all_values))
    /\ UNCHANGED <<call_fn, call_args, calc_vars, attr_vars, risk_vars>>

ZScoreNext == CallZScore

SpecZScore == ZScoreInit /\ [][ZScoreNext]_vars

\* the present entries of the list are fewer than 2, or all equal
Degenerate(all_values) ==
    LET present == clean(all_values)
    IN  \/ Len(present) < 2
        \/ \A i \in 1..Len(present) : present[i] = present[1]

\* C21: calculate_z_score returns exactly 0.0 whenever the value is missing,
\* fewer than 2 entries of the list are present, or all present entries are
\* equal.
C21_NeutralZScore ==
    (/\ call_fn = "calculate_z_score"
     /\ call_ret.done
     /\ (IsNaN(call_args.value) \/ Degenerate(call_args.all_values)))
    => call_ret.value = ZeroScore


----------------------------------------------------------------------------
(* Sector concentration against security concentration                     *)

\* some sector holds two positions of positive value
SectorSharedByPositions(holdings_df) ==
    \E x, y \in holdings_df :
        /\ x # y
        /\ x.sector = y.sector
        /\ x.market_value > 0
        /\ y.market_value > 0

\* C30: on a snapshot with positive total market value calculate_sector_hhi
\* is at least calculate_hhi, and equal exactly when no sector holds more
\* than one position of positive value; both are 0 when the total is 0.
C30_SectorHhiAtLeastHhi ==
    (call_fn = "calculate_sector_hhi" /\ call_ret.done) =>
        LET sector_hhi == call_ret.value
            hhi == calculate_hhi(call_args)
        IN  /\ sector_hhi.form = "float"
            /\ hhi.form = "float"
            /\ TotalMarketValue(call_args) > 0 =>
                  /\ ~RLt(sector_hhi.args[1], hhi.args[1])
                  /\ sector_hhi = hhi <=> ~SectorSharedByPositions(call_args)
            /\ TotalMarketValue(call_args) = 0 =>
                  /\ sector_hhi = Float(Zero)
                  /\ hhi = Float(Zero)

\* calculate_sector_hhi has returned more than calculate_hhi on a snapshot of
\* three positive positions, two of them in one sector
C30_Witness ==
    /\ call_fn = "calculate_sector_hhi"
    /\ call_ret.done
    /\ Cardinality(call_args) = 3
    /\ \A x \in call_args : x.market_value > 0
    /\ SectorSharedByPositions(call_args)
    /\ RLt(calculate_hhi(call_args).args[1], call_ret.value.args[1])


----------------------------------------------------------------------------
(* Skipped attribution runs                                                *)

\* the frames the running entry point has loaded
LoadedPortfolio ==
    IF in_kind = "daily" THEN load_portfolio_data(in_port)
    ELSE load_portfolio_monthly_data(in_port)

LoadedBenchmark ==
    IF in_kind = "daily" THEN load_benchmark_data(in_bench)
    ELSE load_benchmark_monthly_data(in_bench)

\* both weighted total returns are below 1 basis point in absolute value
BothReturnsBelowOneBp ==
    /\ RLt(RAbs(SumOver([s \in DOMAIN LoadedPortfolio |->
                            RMul(LoadedPortfolio[s].daily_return,
                                 LoadedPortfolio[s].weight)],
                        DOMAIN LoadedPortfolio)), R(1, 10000))
    /\ RLt(RAbs(SumOver([s \in DOMAIN LoadedBenchmark |->
                            RMul(LoadedBenchmark[s].daily_return,
                                 LoadedBenchmark[s].weight)],
                        DOMAIN LoadedBenchmark)), R(1, 10000))

\* no portfolio data, no benchmark data, or both returns below 1 bp
SkipCondition ==
    \/ DOMAIN LoadedPortfolio = {}
    \/ DOMAIN LoadedBenchmark = {}
    \/ BothReturnsBelowOneBp

\* C29: a run that finds no portfolio data, no benchmark data or both total
\* returns below 1 bp takes the early return, and a run that takes the early
\* return deletes and inserts no row: the table is the same bag of rows from
\* the call to the return.
C29_SkippedRunWritesNothing ==
    /\ []((attr_pc # "idle" /\ SkipCondition) => attr_pc = "skipped")
    /\ [][/\ attr_pc' = "skipped" => portfolio_attribution' = portfolio_attribution
          /\ attr_pc = "skipped"
             => /\ attr_pc' = "idle"
                /\ portfolio_attribution' = portfolio_attribution]_vars

\* a run on a table that holds rows has loaded both frames and is about to
\* return because both returns are below 1 bp
C29_Witness ==
    /\ attr_pc = "skipped"
    /\ portfolio_attribution # EmptyBag
    /\ DOMAIN LoadedPortfolio # {}
    /\ DOMAIN LoadedBenchmark # {}
    /\ BothReturnsBelowOneBp


----------------------------------------------------------------------------
(* score_stock_from_info and score_stock_all_factors:                      *)
(* src/analytics/factor_scoring.py                                         *)
(*                                                                         *)
(* A dict is a function on the keys it holds.  A key that holds None holds *)
(* NaN here (pd.isna does not tell them apart); a function that returns    *)
(* None returns the empty dict here (the callers test `if not scores`).    *)

None == <<>>

\* d.get(key, default)
dict_get(d, key, default) == IF key \in DOMAIN d THEN d[key] ELSE default

\* the ten fundamentals of a record
Factors ==
    {"roe", "profit_margin", "roic", "revenue_growth", "earnings_growth",
     "pe", "pb", "fcf_yield", "debt_equity", "current_ratio"}

\* the yfinance field each one is read from; fcf_yield is derived
InfoKey ==
    [roe |-> "returnOnEquity",
     profit_margin |-> "profitMargins",
     roic |-> "returnOnAssets",
     revenue_growth |-> "revenueGrowth",
     earnings_growth |-> "earningsGrowth",
     pe |-> "trailingPE",
     pb |-> "priceToBook",
     debt_equity |-> "debtToEquity",
     current_ratio |-> "currentRatio"]

\* a variant that ranks P/B as if higher were better
lower_is_better_pe_and_debt ==
    [roe |-> FALSE,
     profit_margin |-> FALSE,
     roic |-> FALSE,
     revenue_growth |-> FALSE,
     earnings_growth |-> FALSE,
     pe |-> TRUE,
     pb |-> FALSE,
     fcf_yield |-> FALSE,
     debt_equity |-> TRUE,
     current_ratio |-> FALSE]

\* the lower_is_better argument of each calculate_percentile_rank call
lower_is_better_of ==
    [roe |-> FALSE,
     profit_margin |-> FALSE,
     roic |-> FALSE,
     revenue_growth |-> FALSE,
     earnings_growth |-> FALSE,
     pe |-> TRUE,
     pb |-> TRUE,
     fcf_yield |-> FALSE,
     debt_equity |-> TRUE,
     current_ratio |-> FALSE]

\* the factor each calculate_z_score result is multiplied by
zscore_factor_of ==
    [roe |-> 1,
     profit_margin |-> 1,
     roic |-> 1,
     revenue_growth |-> 1,
     earnings_growth |-> 1,
     pe |-> 0 - 1,
     pb |-> 0 - 1,
     fcf_yield |-> 1,
     debt_equity |-> 0 - 1,
     current_ratio |-> 1]

\* factor * z
ZMul(factor, z) == ZScore(factor * z.sign, z.square)

\* market_cap = info.get('marketCap', 1); fcf = info.get('freeCashflow', 0)
market_cap_of(info) == dict_get(info, "marketCap", One)

fcf_of(info) == dict_get(info, "freeCashflow", Zero)

\* a variant that divides whatever market_cap is
fcf_yield_unguarded(info) ==
    fl(RMul(fl(RDiv(fcf_of(info), market_cap_of(info))), R(100, 1)))

\* (fcf / market_cap * 100) if market_cap > 0 else 0
fcf_yield_of(info) ==
    IF RLt(Zero, market_cap_of(info))
    THEN fl(RMul(fl(RDiv(fcf_of(info), market_cap_of(info))), R(100, 1)))
    ELSE Zero

\* the statements of the try block that raise: info is None (AttributeError
\* on info.get), `None > 0`, `None / market_cap` (TypeError)
scoring_raises(info) ==
    \/ info = None
    \/ IsNaN(market_cap_of(info))
    \/ RLt(Zero, market_cap_of(info)) /\ IsNaN(fcf_of(info))

\* the value of each fundamental
raw_values(info) ==
    [m \in Factors |->
        IF m = "fcf_yield" THEN fcf_yield_of(info) ELSE dict_get(info, InfoKey[m], NaN)]

PctKey(m) == m \o "_pct"

ZscoreKey(m) == m \o "_zscore"

RawKey(m) == "raw_" \o m

PctKeys == {PctKey(m) : m \in Factors}

ZscoreKeys == {ZscoreKey(m) : m \in Factors}

RawKeys == {RawKey(m) : m \in Factors}

\* the 'ticker', 'sector', 'market_cap', '*_pct' and 'raw_*' entries
percentile_entries(ticker, sector, info, sector_dist) ==
    LET raw == raw_values(info)
    IN  ("ticker" :> ticker) @@ ("sector" :> sector)
        @@ ("market_cap" :> market_cap_of(info))
        @@ [k \in PctKeys |->
               LET m == CHOOSE f \in Factors : PctKey(f) = k
               IN  calculate_percentile_rank(raw[m], dict_get(sector_dist, m, <<>>),
                                             lower_is_better_of[m])]
        @@ [k \in RawKeys |-> raw[CHOOSE f \in Factors : RawKey(f) = k]]

\* the '*_zscore' entries
zscore_entries(info, all_sectors_dist) ==
    LET raw == raw_values(info)
    IN  [k \in ZscoreKeys |->
            LET m == CHOOSE f \in Factors : ZscoreKey(f) = k
            IN  ZMul(zscore_factor_of[m],
                     calculate_z_score(raw[m], dict_get(all_sectors_dist, m, <<>>)))]

\* sector_benchmarks.get('distributions', {}).get(sector, {}).get('metrics', {})
sector_dist_of(sector_benchmarks, sector) ==
    IF sector_benchmarks = None THEN <<>>
    ELSE dict_get(dict_get(dict_get(sector_benchmarks, "distributions", <<>>),
                           sector, <<>>),
                  "metrics", <<>>)

score_stock_from_info(ticker, info, sector_benchmarks) ==
    IF scoring_raises(info) THEN None
    ELSE LET sector == dict_get(info, "sector", "Unknown")
             all_sectors_dist ==
                 IF sector_benchmarks = None THEN <<>>
                 ELSE dict_get(sector_benchmarks, "all_sectors", <<>>)
         IN  percentile_entries(ticker, sector, info,
                                sector_dist_of(sector_benchmarks, sector))
             @@ zscore_entries(info, all_sectors_dist)

\* yf holds what yf.Ticker(ticker).info gives: a dict, or None when it raises
score_stock_all_factors(ticker, sector_benchmarks, yf) ==
    LET info == yf[ticker]
    IN  IF scoring_raises(info) THEN None
        ELSE LET sector == dict_get(info, "sector", "Unknown")
             IN  percentile_entries(ticker, sector, info,
                                    sector_dist_of(sector_benchmarks, sector))

\* most fundamental fields an info dict of the scorer's callers carries
MaxFields == 1

\* the doubles a fundamental field holds
FieldValues == {fl(R(1, 10)), fl(R(9, 10))}

\* the fundamental fields of an info dict: up to MaxFields of them
FieldDicts ==
    UNION {[K -> FieldValues] : K \in {X \in SUBSET {InfoKey[m] : m \in DOMAIN InfoKey} :
                                          Cardinality(X) <= MaxFields}}

\* 'marketCap': absent, None, negative, 0, positive
MarketCapDicts ==
    {<<>>, "marketCap" :> NaN, "marketCap" :> R(0 - 2, 1), "marketCap" :> Zero,
     "marketCap" :> R(2, 1)}

\* 'freeCashflow': absent, None, 1
CashflowDicts == {<<>>, "freeCashflow" :> NaN, "freeCashflow" :> One}

\* 'sector': absent, 'Tech'
SectorDicts == {<<>>, "sector" :> "Tech"}

\* stock.info
Infos ==
    {x[1] @@ x[2] @@ x[3] @@ x[4] :
        x \in SectorDicts \X FieldDicts \X MarketCapDicts \X CashflowDicts}

\* the peers' values of a fundamental, and of the FCF yield
PeerValues == <<fl(R(1, 10)), fl(R(5, 10)), fl(R(9, 10))>>

PeerYields == <<Zero, R(25, 1), R(50, 1)>>

PeerLists == [m \in Factors |-> IF m = "fcf_yield" THEN PeerYields ELSE PeerValues]

\* DynamicSectorBenchmarks.data with one sector
SampleBenchmarks ==
    [distributions |-> ("Tech" :> [metrics |-> PeerLists]),
     all_sectors |-> PeerLists]

\* sector_benchmarks: not given, or loaded
BenchmarkChoices == {None, SampleBenchmarks}

ScoreInit ==
    /\ in_kind = "daily"
    /\ in_port = EmptyFrame
    /\ in_bench = EmptyFrame
    /\ out_attr = NotRun
    /\ portfolio_attribution = EmptyBag
    /\ attr_pc = "idle"
    /\ attr_run = NoRun
    /\ portfolio_risk_metrics = EmptyBag
    /\ risk_pc = "idle"
    /\ risk_run = NoRiskRun
    /\ call_fn \in {"score_stock_from_info", "score_stock_all_factors"}
    /\ call_args \in [ticker : {"AAPL"}, info : Infos \cup {None},
                      sector_benchmarks : BenchmarkChoices]
    /\ call_fn = "score_stock_from_info" => call_args.info # None
    /\ call_ret = NotCalled

CallScoreFromInfo ==
    /\ call_fn = "score_stock_from_info"
    /\ ~call_ret.done
    /\ call_ret' = Returned(score_stock_from_info(call_args.ticker, call_args.info,
                                                  call_args.sector_benchmarks))
    /\ UNCHANGED <<call_fn, call_args, calc_vars, attr_vars, risk_vars>>

\* args.info is what yfinance gives for the ticker
CallScoreAllFactors ==
    /\ call_fn = "score_stock_all_factors"
    /\ ~call_ret.done
    /\ call_ret' = Returned(score_stock_all_factors(call_args.ticker,
                                                    call_args.sector_benchmarks,
                                                    call_args.ticker :> call_args.info))
    /\ UNCHANGED <<call_fn, call_args, calc_vars, attr_vars, risk_vars>>

ScoreNext ==
    \/ CallScoreFromInfo
    \/ CallScoreAllFactors

SpecScore == ScoreInit /\ [][ScoreNext]_vars


----------------------------------------------------------------------------
(* Properties of a factor-score record                                     *)

\* the metrics for which a lower value is better
LowerIsBetter == {"pe", "pb", "debt_equity"}

\* the sector's peers of a metric, as the call was given them
PeersInSector(args, m) ==
    IF args.sector_benchmarks = None
       \/ dict_get(args.info, "sector", "Unknown")
              \notin DOMAIN args.sector_benchmarks.distributions
    THEN <<>>
    ELSE args.sector_benchmarks.distributions[args.info["sector"]].metrics[m]

PeersAcrossSectors(args, m) ==
    IF args.sector_benchmarks = None THEN <<>>
    ELSE args.sector_benchmarks.all_sectors[m]

\* x is the least of the values and below another of them
LeastOf(x, values) ==
    /\ ~IsNaN(x)
    /\ \A i \in 1..Len(values) : ~RLt(values[i], x)
    /\ \E i \in 1..Len(values) : RLt(x, values[i])

\* C22: in a record of score_stock_from_info the percentile of P/E, P/B and
\* debt/equity, and of no other metric, is computed with lower_is_better=True,
\* and the z-score of those three, and of no other, is negated; so the least
\* value among the peers gets percentile 100 and a positive z-score for those
\* three, and percentile 0 and a negative z-score for the other seven.
C22_UniformDirection ==
    (/\ call_fn = "score_stock_from_info"
     /\ call_ret.done
     /\ call_ret.value # None)
    => \A m \in Factors :
          LET raw == call_ret.value[RawKey(m)]
              pct == call_ret.value[PctKey(m)]
              zscore == call_ret.value[ZscoreKey(m)]
              z == calculate_z_score(raw, PeersAcrossSectors(call_args, m))
          IN  /\ pct = calculate_percentile_rank(raw, PeersInSector(call_args, m),
                                                 m \in LowerIsBetter)
              /\ zscore = IF m \in LowerIsBetter THEN ZScore(0 - z.sign, z.square) ELSE z
              /\ LeastOf(raw, PeersInSector(call_args, m))
                    => pct = IF m \in LowerIsBetter THEN R(100, 1) ELSE Zero
              /\ LeastOf(raw, PeersAcrossSectors(call_args, m))
                    => zscore.sign = IF m \in LowerIsBetter THEN 1 ELSE 0 - 1

\* the record of a stock whose P/B is the lowest of its sector: percentile 100
\* and a positive z-score
C22_Witness ==
    /\ call_fn = "score_stock_from_info"
    /\ call_ret.done
    /\ call_ret.value # None
    /\ LeastOf(call_ret.value["raw_pb"], PeersInSector(call_args, "pb"))
    /\ call_ret.value["pb_pct"] = R(100, 1)
    /\ call_ret.value["pb_zscore"].sign = 1

\* C23: a returned record has raw_fcf_yield = free_cashflow / market_cap * 100
\* when market_cap > 0; when market_cap <= 0 a record is returned, with
\* raw_fcf_yield = 0 and fcf_yield_pct the rank of 0.
C23_FcfYield ==
    (/\ call_fn \in {"score_stock_from_info", "score_stock_all_factors"}
     /\ call_ret.done
     /\ call_args.info # None)
    => LET market_cap == dict_get(call_args.info, "marketCap", One)
           fcf == dict_get(call_args.info, "freeCashflow", Zero)
       IN  /\ (RLt(Zero, market_cap) /\ call_ret.value # None)
                 => call_ret.value["raw_fcf_yield"]
                       = RMul(RDiv(fcf, market_cap), R(100, 1))
           /\ (~IsNaN(market_cap) /\ ~RLt(Zero, market_cap))
                 => /\ call_ret.value # None
                    /\ call_ret.value["raw_fcf_yield"] = Zero
                    /\ call_ret.value["fcf_yield_pct"]
                          = calculate_percentile_rank(
                                Zero, PeersInSector(call_args, "fcf_yield"), FALSE)

\* a record returned for a stock with market cap 0 and free cash flow 1
C23_Witness ==
    /\ call_fn = "score_stock_all_factors"
    /\ call_ret.done
    /\ call_args.info # None
    /\ dict_get(call_args.info, "marketCap", One) = Zero
    /\ dict_get(call_args.info, "freeCashflow", Zero) = One
    /\ call_ret.value # None
    /\ call_ret.value["raw_fcf_yield"] = Zero


----------------------------------------------------------------------------
(* Style ranking: src/analytics/investment_styles.py                       *)

INVESTMENT_STYLES ==
    [growth |->
        [weights |-> [revenue_growth_pct |-> R(35, 100),
                      earnings_growth_pct |-> R(25, 100),
                      profit_margin_pct |-> R(20, 100),
                      roe_pct |-> R(20, 100)],
         min_thresholds |-> [revenue_growth_pct |-> R(50, 1)]],
     value |->
        [weights |-> [pe_pct |-> R(30, 100),
                      pb_pct |-> R(25, 100),
                      fcf_yield_pct |-> R(25, 100),
                      roe_pct |-> R(10, 100),
                      current_ratio_pct |-> R(10, 100)],
         min_thresholds |-> [roe_pct |-> R(40, 1),
                             pe_pct |-> R(40, 1),
                             current_ratio_pct |-> R(30, 1)]],
     quality |->
        [weights |-> [roe_pct |-> R(35, 100),
                      roic_pct |-> R(25, 100),
                      profit_margin_pct |-> R(25, 100),
                      debt_equity_pct |-> R(15, 100)],
         min_thresholds |-> [roe_pct |-> R(70, 1),
                             debt_equity_pct |-> R(50, 1),
                             profit_margin_pct |-> R(60, 1)]],
     balanced |->
        [weights |-> [revenue_growth_pct |-> R(20, 100),
                      roe_pct |-> R(20, 100),
                      pe_pct |-> R(20, 100),
                      profit_margin_pct |-> R(20, 100),
                      fcf_yield_pct |-> R(10, 100),
                      debt_equity_pct |-> R(10, 100)],
         min_thresholds |-> [revenue_growth_pct |-> R(40, 1),
                             roe_pct |-> R(40, 1)]]]

\* a >= b; every comparison with NaN is false
\* a dict held as an explicit table of its entries
Dict(f) == f @@ <<>>

RGe(a, b) == ~IsNaN(a) /\ ~IsNaN(b) /\ ~RLt(a, b)

\* a variant that reads a missing metric as percentile 50
passes_threshold_neutral(factor_scores, min_thresholds) ==
    \A metric \in DOMAIN min_thresholds :
        RGe(dict_get(factor_scores, metric, R(50, 1)), min_thresholds[metric])

\* all(factor_scores.get(metric, 0) >= min_val
\*     for metric, min_val in min_thresholds.items())
passes_threshold(factor_scores, min_thresholds) ==
    \A metric \in DOMAIN min_thresholds :
        RGe(dict_get(factor_scores, metric, Zero), min_thresholds[metric])

\* a variant that reads a missing metric as percentile 0
style_score_fail_closed(factor_scores, weights) ==
    round2(SumOver([metric \in DOMAIN weights |->
                       RMul(dict_get(factor_scores, metric, Zero), weights[metric])],
                   DOMAIN weights))

\* round(sum(factor_scores.get(metric, 50) * weight
\*           for metric, weight in weights.items()), 2)
style_score_of(factor_scores, weights) ==
    round2(SumOver([metric \in DOMAIN weights |->
                       RMul(dict_get(factor_scores, metric, R(50, 1)), weights[metric])],
                   DOMAIN weights))

\* the securities the loop keeps: a record, the sector asked for (None and ''
\* ask for none), every threshold met
kept(scores_of, style, sector) ==
    {ticker \in DOMAIN scores_of :
        /\ scores_of[ticker] # None
        /\ sector # "" => dict_get(scores_of[ticker], "sector", "") = sector
        /\ passes_threshold(scores_of[ticker], INVESTMENT_STYLES[style].min_thresholds)}

\* the entry appended to results: the columns the two rankers share
result_row(ticker, factor_scores, style) ==
    [ticker |-> ticker,
     sector |-> dict_get(factor_scores, "sector", ""),
     market_cap |-> dict_get(factor_scores, "market_cap", NaN),
     style_score |-> style_score_of(factor_scores, INVESTMENT_STYLES[style].weights),
     roe_pct |-> dict_get(factor_scores, "roe_pct", NaN),
     revenue_growth_pct |-> dict_get(factor_scores, "revenue_growth_pct", NaN),
     pe_pct |-> dict_get(factor_scores, "pe_pct", NaN),
     raw_roe |-> dict_get(factor_scores, "raw_roe", NaN),
     raw_revenue_growth |-> dict_get(factor_scores, "raw_revenue_growth", NaN),
     raw_pe |-> dict_get(factor_scores, "raw_pe", NaN)]

\* df.sort_values('style_score', ascending=False): the sort is not stable, so
\* rows of equal score come in any order
sort_values_descending(rows) ==
    {df \in [1..Cardinality(rows) -> rows] :
        /\ \A i, j \in DOMAIN df : i # j => df[i] # df[j]
        /\ \A i, j \in DOMAIN df : i < j => ~RLt(df[i].style_score, df[j].style_score)}

\* a variant that returns every row
head_all(df, n) == df

\* df.head(n), n >= 0
head(df, n) == SubSeq(df, 1, IF n < Len(df) THEN n ELSE Len(df))

\* what a call gives: the frame returned or the error raised, and the
\* securities its loop went over
Ranked(frame, processed) == [raised |-> FALSE, frame |-> frame, processed |-> processed]

RaisedValueError == [raised |-> TRUE, frame |-> <<>>, processed |-> {}]

\* the frames the loop, the sort and head can give
ranked_frames(scores_of, style, sector, top_n) ==
    LET rows == {result_row(ticker, scores_of[ticker], style) :
                    ticker \in kept(scores_of, style, sector)}
    IN  {Ranked(head(df, top_n), DOMAIN scores_of) : df \in sort_values_descending(rows)}

\* a variant that ranks by the balanced style when the name is unknown
rank_stocks_by_style_cached_default(factor_scores_dict, style, sector, top_n) ==
    IF style \notin DOMAIN INVESTMENT_STYLES
    THEN ranked_frames(factor_scores_dict, "balanced", sector, top_n)
    ELSE ranked_frames(factor_scores_dict, style, sector, top_n)

rank_stocks_by_style_cached(factor_scores_dict, style, sector, top_n) ==
    IF style \notin DOMAIN INVESTMENT_STYLES THEN {RaisedValueError}
    ELSE ranked_frames(factor_scores_dict, style, sector, top_n)

\* the loop scores each ticker with score_stock_all_factors; yf is what
\* yfinance gives for each
get_top_stocks_by_style(screened_stocks, style, sector, top_n, sector_benchmarks, yf) ==
    IF style \notin DOMAIN INVESTMENT_STYLES THEN {RaisedValueError}
    ELSE ranked_frames(Dict([ticker \in {screened_stocks[i] : i \in DOMAIN screened_stocks} |->
                                score_stock_all_factors(ticker, sector_benchmarks, yf)]),
                       style, sector, top_n)

\* the largest top_n a caller asks for
MaxTopN == 2

StockTickers == {"AAPL", "MSFT", "XOM"}

\* doubles below, inside and above the peers' values
Low == fl(R(1, 10))

Mid == fl(R(5, 10))

High == fl(R(9, 10))

Top == R(2, 1)

\* what get_ticker_info is left with when the fetch of a ticker fails: of the
\* keys the scorer reads, the sector 'Unknown' alone
FallbackInfo == "sector" :> "Unknown"

\* a listing with a sector and no fundamentals
SectorOnlyInfo == "sector" :> "Tech"

\* a stock strong on every factor
LeaderInfo ==
    [sector |-> "Tech", returnOnEquity |-> Top, profitMargins |-> High,
     returnOnAssets |-> High, revenueGrowth |-> High, earningsGrowth |-> Mid,
     trailingPE |-> Mid, priceToBook |-> Low, debtToEquity |-> Low,
     currentRatio |-> High, marketCap |-> R(2, 1), freeCashflow |-> One]

\* a stock with no revenue growth and the best of everything else
OneSidedInfo ==
    [sector |-> "Tech", returnOnEquity |-> Top, profitMargins |-> Top,
     returnOnAssets |-> Top, revenueGrowth |-> Low, earningsGrowth |-> Top,
     trailingPE |-> Low, priceToBook |-> Low, debtToEquity |-> Low,
     currentRatio |-> Top, marketCap |-> R(2, 1), freeCashflow |-> One]

\* a stock of a sector the benchmarks do not cover
EnergyInfo ==
    [sector |-> "Energy", returnOnEquity |-> High, revenueGrowth |-> High,
     marketCap |-> R(2, 1), freeCashflow |-> One]

\* a stock whose marketCap holds None: the scorer raises and returns None
BrokenCapInfo ==
    [sector |-> "Tech", returnOnEquity |-> Top, revenueGrowth |-> Top,
     marketCap |-> NaN]

RankInfos ==
    {FallbackInfo, SectorOnlyInfo, LeaderInfo, OneSidedInfo, EnergyInfo, BrokenCapInfo}

Quotes(aapl, msft, xom) == ("AAPL" :> aapl) @@ ("MSFT" :> msft) @@ ("XOM" :> xom)

\* yfinance: an info dict per ticker, or None where the fetch raises
YfChoices ==
    {Quotes(LeaderInfo, OneSidedInfo, EnergyInfo),
     Quotes(FallbackInfo, LeaderInfo, None),
     Quotes(SectorOnlyInfo, SectorOnlyInfo, EnergyInfo),
     Quotes(BrokenCapInfo, OneSidedInfo, FallbackInfo),
     Quotes(LeaderInfo, LeaderInfo, OneSidedInfo),
     Quotes(None, None, None)}

\* the metrics the cached record of one ticker has lost
TrimChoices == {{}, {"revenue_growth_pct"}, {"roe_pct", "pe_pct"}}

TrimmedTicker == "MSFT"

\* a cached record without the metrics it has lost
trim_record(record, trim) ==
    [k \in DOMAIN record \ (IF record.ticker = TrimmedTicker THEN trim ELSE {}) |->
        record[k]]

\* factor_scores_cache of the screening page: the records that are not None,
\* under their tickers (each info is scored once)
page_cache(yf, trim) ==
    LET fetched == {ticker \in StockTickers : yf[ticker] # None}
        table(records) ==
            [ticker \in {r.ticker : r \in records} |->
                trim_record(CHOOSE r \in records : r.ticker = ticker, trim)]
    IN  CHOOSE cache \in
            {table(records) :
                records \in {{score_stock_from_info(ticker, yf[ticker], SampleBenchmarks) :
                                 ticker \in fetched} \ {None}}} : TRUE

StyleNames == DOMAIN INVESTMENT_STYLES \cup {"momentum"}

\* sector: None (held as '') or a sector name
SectorFilters == {"", "Tech"}

ScreenedLists == {<<>>, <<"XOM", "AAPL">>, <<"AAPL", "MSFT", "XOM">>}

RankInit ==
    /\ in_kind = "daily"
    /\ in_port = EmptyFrame
    /\ in_bench = EmptyFrame
    /\ out_attr = NotRun
    /\ portfolio_attribution = EmptyBag
    /\ attr_pc = "idle"
    /\ attr_run = NoRun
    /\ portfolio_risk_metrics = EmptyBag
    /\ risk_pc = "idle"
    /\ risk_run = NoRiskRun
    /\ \/ /\ call_fn = "rank_stocks_by_style_cached"
          /\ \E yf \in YfChoices, trim \in TrimChoices :
                \E factor_scores_dict \in {page_cache(yf, trim)}, style \in StyleNames,
                   sector \in SectorFilters, top_n \in 0..MaxTopN :
                   call_args = [yf |-> yf,
                                factor_scores_dict |-> factor_scores_dict,
                                style |-> style, sector |-> sector, top_n |-> top_n]
       \/ /\ call_fn = "get_top_stocks_by_style"
          /\ call_args \in [yf : YfChoices, screened_stocks : ScreenedLists,
                            style : StyleNames, sector : SectorFilters,
                            top_n : 0..MaxTopN]
    /\ call_ret = NotCalled

CallRankCached ==
    /\ call_fn = "rank_stocks_by_style_cached"
    /\ ~call_ret.done
    /\ \E result \in rank_stocks_by_style_cached(call_args.factor_scores_dict,
                                                 call_args.style, call_args.sector,
                                                 call_args.top_n) :
          call_ret' = Returned(result)
    /\ UNCHANGED <<call_fn, call_args, calc_vars, attr_vars, risk_vars>>

CallGetTop ==
    /\ call_fn = "get_top_stocks_by_style"
    /\ ~call_ret.done
    /\ \E result \in get_top_stocks_by_style(call_args.screened_stocks, call_args.style,
                                             call_args.sector, call_args.top_n,
                                             SampleBenchmarks, call_args.yf) :
          call_ret' = Returned(result)
    /\ UNCHANGED <<call_fn, call_args, calc_vars, attr_vars, risk_vars>>

RankNext ==
    \/ CallRankCached
    \/ CallGetTop

SpecRank == RankInit /\ [][RankNext]_vars

\* ---------------------------------------------------------------------------
\* Properties of a ranking
\* ---------------------------------------------------------------------------

\* the fields of an info dict the scorer takes fundamentals from
FundamentalFields ==
    {InfoKey[m] : m \in DOMAIN InfoKey} \cup {"marketCap", "freeCashflow"}

\* nothing to score the ticker with: the fetch raised, the info has none of
\* the fields, or scoring raises
NoFundamentals(yf, ticker) ==
    \/ yf[ticker] = None
    \/ DOMAIN yf[ticker] \cap FundamentalFields = {}
    \/ scoring_raises(yf[ticker])

RankingReturned ==
    /\ call_fn \in {"rank_stocks_by_style_cached", "get_top_stocks_by_style"}
    /\ call_ret.done
    /\ ~call_ret.value.raised

\* the tickers of the frame a ranking returned
RankedTickers == {call_ret.value.frame[i].ticker : i \in DOMAIN call_ret.value.frame}

\* C24: a security for which no fundamentals can be obtained never appears in
\* the output of a style ranker.
C24_UnavailableNeverRanked ==
    RankingReturned
    => \A ticker \in RankedTickers : ~NoFundamentals(call_args.yf, ticker)

\* the four style names
FourStyles == {"growth", "value", "quality", "balanced"}

\* C25: both rankers raise for a style name that is none of the four, before
\* any security is filtered or scored, and rank by no other style instead.
C25_InvalidStyleRejected ==
    /\ DOMAIN INVESTMENT_STYLES = FourStyles
    /\ (/\ call_fn \in {"rank_stocks_by_style_cached", "get_top_stocks_by_style"}
        /\ call_ret.done
        /\ call_args.style \notin FourStyles)
       => /\ call_ret.value.raised
          /\ call_ret.value.processed = {}
          /\ call_ret.value.frame = <<>>

\* an unknown style name is rejected although the cache holds records
C25_Witness ==
    /\ call_fn = "rank_stocks_by_style_cached"
    /\ call_ret.done
    /\ call_args.style = "momentum"
    /\ DOMAIN call_args.factor_scores_dict # {}
    /\ call_ret.value.raised

CachedRankingReturned ==
    /\ call_fn = "rank_stocks_by_style_cached"
    /\ call_ret.done
    /\ ~call_ret.value.raised

\* the record of a security meets every threshold of the style it is ranked
\* by, a metric it lacks counting as 0
MeetsThresholds(record) ==
    LET min_thresholds == INVESTMENT_STYLES[call_args.style].min_thresholds
    IN  \A metric \in DOMAIN min_thresholds :
            /\ metric \in DOMAIN record
            /\ ~IsNaN(record[metric])
            /\ ~RLt(record[metric], min_thresholds[metric])

\* the composite score of a record under the weights of the style
Composite(record) ==
    LET weights == INVESTMENT_STYLES[call_args.style].weights
    IN  round2(SumOver([metric \in DOMAIN weights |->
                           RMul(IF metric \in DOMAIN record THEN record[metric]
                                ELSE R(50, 1),
                                weights[metric])],
                       DOMAIN weights))

\* C26: every entry rank_stocks_by_style_cached returns meets every minimum
\* threshold of the style, a metric absent from its record counting as 0, and
\* has the sector asked for when one is given.
C26_FilterSoundness ==
    CachedRankingReturned
    => \A ticker \in RankedTickers :
          /\ ticker \in DOMAIN call_args.factor_scores_dict
          /\ MeetsThresholds(call_args.factor_scores_dict[ticker])
          /\ call_args.sector # ""
                => /\ "sector" \in DOMAIN call_args.factor_scores_dict[ticker]
                   /\ call_args.factor_scores_dict[ticker].sector = call_args.sector

\* a ranking that leaves out a security below a threshold and one that lacks a
\* thresholded metric, both with a composite score above a returned entry's
C26_Witness ==
    /\ CachedRankingReturned
    /\ \E i \in DOMAIN call_ret.value.frame :
          \E below, lacking \in DOMAIN call_args.factor_scores_dict \ RankedTickers :
             LET min_thresholds == INVESTMENT_STYLES[call_args.style].min_thresholds
                 low == call_args.factor_scores_dict[below]
                 short == call_args.factor_scores_dict[lacking]
             IN  /\ \E metric \in DOMAIN min_thresholds :
                       /\ metric \in DOMAIN low
                       /\ RLt(low[metric], min_thresholds[metric])
                 /\ \E metric \in DOMAIN min_thresholds : metric \notin DOMAIN short
                 /\ RLt(call_ret.value.frame[i].style_score, Composite(low))
                 /\ RLt(call_ret.value.frame[i].style_score, Composite(short))

\* the record a ranker scored a ticker from
RecordOf(ticker) ==
    IF call_fn = "rank_stocks_by_style_cached"
    THEN call_args.factor_scores_dict[ticker]
    ELSE score_stock_all_factors(ticker, SampleBenchmarks, call_args.yf)

\* C27: the style_score of every returned entry is the sum, over the metrics
\* of the style's weights, of percentile times weight, rounded to 2 decimals,
\* with percentile 50 for a metric the record lacks.
C27_CompositeScore ==
    RankingReturned
    => \A i \in DOMAIN call_ret.value.frame :
          call_ret.value.frame[i].style_score
              = Composite(RecordOf(call_ret.value.frame[i].ticker))

\* an entry whose record lacks a weighted metric and holds an unweighted one,
\* and whose weighted sum has more than 2 decimals
C27_Witness ==
    /\ CachedRankingReturned
    /\ \E i \in DOMAIN call_ret.value.frame :
          LET record == call_args.factor_scores_dict[call_ret.value.frame[i].ticker]
              weights == INVESTMENT_STYLES[call_args.style].weights
              products == [metric \in DOMAIN weights |->
                              RMul(IF metric \in DOMAIN record THEN record[metric]
                                   ELSE R(50, 1),
                                   weights[metric])]
          IN  /\ \E metric \in DOMAIN weights : metric \notin DOMAIN record
              /\ \E metric \in DOMAIN record \ DOMAIN weights :
                    metric \in PctKeys /\ record[metric] # Zero
              /\ SumOver(products, DOMAIN weights) # call_ret.value.frame[i].style_score

\* the records a ranker went over
RecordsRanked ==
    IF call_fn = "rank_stocks_by_style_cached"
    THEN DOMAIN call_args.factor_scores_dict
    ELSE {ticker \in {call_args.screened_stocks[i] : i \in DOMAIN call_args.screened_stocks} :
             RecordOf(ticker) # None}

\* the securities that pass the sector filter and the threshold gate
Passing ==
    {ticker \in RecordsRanked :
        /\ MeetsThresholds(RecordOf(ticker))
        /\ call_args.sector # ""
              => /\ "sector" \in DOMAIN RecordOf(ticker)
                 /\ RecordOf(ticker).sector = call_args.sector}

Min(a, b) == IF a < b THEN a ELSE b

\* C28: a ranker returns exactly min(top_n, P) entries, P the number of
\* passing securities, each a different passing security, in non-increasing
\* style_score order, and no passing security left out scores strictly
\* higher than a returned one.
C28_TopN ==
    RankingReturned
    => LET frame == call_ret.value.frame
       IN  /\ Len(frame) = Min(call_args.top_n, Cardinality(Passing))
           /\ \A i \in DOMAIN frame : frame[i].ticker \in Passing
           /\ \A i, j \in DOMAIN frame : i # j => frame[i].ticker # frame[j].ticker
           /\ \A i, j \in DOMAIN frame :
                 i < j => ~RLt(frame[i].style_score, frame[j].style_score)
           /\ \A ticker \in Passing \ RankedTickers :
                 \A i \in DOMAIN frame :
                    ~RLt(frame[i].style_score, Composite(RecordOf(ticker)))

\* three securities pass, two are asked for, and the two returned differ in
\* score and both score above the one left out
C28_Witness ==
    /\ CachedRankingReturned
    /\ Cardinality(Passing) = 3
    /\ call_args.top_n = 2
    /\ Len(call_ret.value.frame) = 2
    /\ RLt(call_ret.value.frame[2].style_score, call_ret.value.frame[1].style_score)
    /\ \E ticker \in Passing \ RankedTickers :
          RLt(Composite(RecordOf(ticker)), call_ret.value.frame[2].style_score)

\* fewer securities pass than are asked for, and all of them are returned
C28_WitnessShort ==
    /\ CachedRankingReturned
    /\ Cardinality(Passing) = 1
    /\ call_args.top_n = 2
    /\ Len(call_ret.value.frame) = 1

====
